---- MODULE Spec2Model ----
(***************************************************************************)
(* promptweaver: streaming tag tokenizer and flat section parser           *)
(* (engine.go).  Bytes are one-character strings, byte slices are          *)
(* sequences of them.  Go indices are kept 0-based: data[i] in the source  *)
(* is data[i + 1] here, so every "consumed" count equals the source's.     *)
(***************************************************************************)
EXTENDS Integers, Sequences, FiniteSets, TLC

VARIABLES
    input,      \* the bytes the io.Reader will deliver
    fed,        \* how many of them ProcessStream has read so far
    p,          \* the parser (engine.go:204-214) with its sink and handler log
    pc,         \* "reading" inside ProcessStream's loop, "done" once it returned
    result      \* the error ProcessStream returned (NoErr for nil)

vars == <<input, fed, p, pc, result>>

\* ------------------------------------------------------------------ bytes
UpperLetters ==
    <<"A","B","C","D","E","F","G","H","I","J","K","L","M",
      "N","O","P","Q","R","S","T","U","V","W","X","Y","Z">>
LowerLetters ==
    <<"a","b","c","d","e","f","g","h","i","j","k","l","m",
      "n","o","p","q","r","s","t","u","v","w","x","y","z">>
Digits == {"0","1","2","3","4","5","6","7","8","9"}

Range(s) == { s[i] : i \in DOMAIN s }

isSpace(b) == b \in {" ", "\n", "\t", "\r"}

isNameChar(b) ==
    b \in Range(LowerLetters) \cup Range(UpperLetters) \cup Digits \cup {"_", "-"}

isAttrNameChar(b) == isNameChar(b)

\* strings.ToLower on one byte, then on a byte string
ToLowerByte(b) ==
    IF \E i \in DOMAIN UpperLetters : UpperLetters[i] = b
    THEN LowerLetters[CHOOSE i \in DOMAIN UpperLetters : UpperLetters[i] = b]
    ELSE b

ToLower(s) == [i \in DOMAIN s |-> ToLowerByte(s[i])]

\* strings.EqualFold, on the ASCII names used here
EqualFold(a, b) == ToLower(a) = ToLower(b)

\* data[lo:hi] of the source (0-based, hi exclusive)
Slice(data, lo, hi) == SubSeq(data, lo + 1, hi)

\* bytes.IndexByte: first 0-based index of b in data, -1 when absent
IndexByte(data, b) ==
    IF \E i \in DOMAIN data : data[i] = b
    THEN (CHOOSE i \in DOMAIN data : data[i] = b /\ \A j \in 1..(i - 1) : data[j] # b) - 1
    ELSE -1

\* --------------------------------------------------------------- registry
NewRegistry == [n \in {} |-> <<>>]

MapSet(m, k, v) == [x \in DOMAIN m \cup {k} |-> IF x = k THEN v ELSE m[x]]

RECURSIVE RegisterAliases(_, _, _)
RegisterAliases(r, canon, aliases) ==
    IF aliases = <<>> THEN r
    ELSE LET a == Head(aliases)
         IN  RegisterAliases(IF a = <<>> THEN r ELSE MapSet(r, ToLower(a), canon),
                             canon, Tail(aliases))

Register(r, plugin) ==
    IF plugin.Name = <<>> THEN r
    ELSE LET canon == ToLower(plugin.Name)
         IN  RegisterAliases(MapSet(r, canon, canon), canon, plugin.Aliases)

IsAllowed(r, name) == ToLower(name) \in DOMAIN r

\* Faulty variant of CanonicalOk: the lookup is case-sensitive.
CanonicalOk_CaseSensitive(r, name) == name \in DOMAIN r

\* Canonical returns (c, ok); CanonicalOk is the ok, Canonical the c
CanonicalOk(r, name) == ToLower(name) \in DOMAIN r
Canonical(r, name) == IF CanonicalOk(r, name) THEN r[ToLower(name)] ELSE <<>>

\* ------------------------------------------------------------ error values
StartPos == [Line |-> 1, Column |-> 1]

NoErr == [kind |-> "none", tagName |-> <<>>, attrName |-> <<>>,
          message |-> "", pos |-> [Line |-> 0, Column |-> 0]]

NewMalformedTagError(pos, tagName, message) ==
    [kind |-> "MalformedTag", tagName |-> tagName, attrName |-> <<>>,
     message |-> message, pos |-> pos]

NewAttributeParsingError(pos, tagName, attrName, message) ==
    [kind |-> "AttributeParsing", tagName |-> tagName, attrName |-> attrName,
     message |-> message, pos |-> pos]

NewUnmatchedTagError(pos, tagName) ==
    [kind |-> "UnmatchedTag", tagName |-> tagName, attrName |-> <<>>,
     message |-> "closing tag has no matching opening tag", pos |-> pos]

NewValidationError(pos, sectionName, message) ==
    [kind |-> "Validation", tagName |-> sectionName, attrName |-> <<>>,
     message |-> message, pos |-> pos]

\* -------------------------------------------------------------- tokenizer
EmptyAttrs == [k \in {} |-> <<>>]

NoTok == [kind |-> "none", name |-> <<>>, attrs |-> EmptyAttrs]

TokRes(consumed, tok, ok, err) ==
    [consumed |-> consumed, tok |-> tok, ok |-> ok, err |-> err]

Incomplete == TokRes(0, NoTok, FALSE, NoErr)

RECURSIVE skipSpaces(_, _)
skipSpaces(data, i) ==
    IF i < Len(data) /\ isSpace(data[i + 1]) THEN skipSpaces(data, i + 1) ELSE i

RECURSIVE scanName(_, _)
scanName(data, i) ==
    IF i < Len(data) /\ isNameChar(data[i + 1]) THEN scanName(data, i + 1) ELSE i

\* Faulty variant of scanQuoted: a backslash does not protect the next byte.
RECURSIVE scanQuoted_NoEscape(_, _, _)
scanQuoted_NoEscape(data, i, quote) ==
    IF i < Len(data) /\ data[i + 1] # quote
    THEN scanQuoted_NoEscape(data, i + 1, quote)
    ELSE i

\* the quoted-value loop: stops at the closing quote or at len(data)
RECURSIVE scanQuoted(_, _, _)
scanQuoted(data, i, quote) ==
    IF i < Len(data) /\ data[i + 1] # quote
    THEN IF data[i + 1] = "\\" /\ i + 1 < Len(data)
         THEN scanQuoted(data, i + 2, quote)
         ELSE scanQuoted(data, i + 1, quote)
    ELSE i

\* the balanced-brace loop; open = FALSE when a quoted span inside it ran
\* into the end of the buffer
RECURSIVE scanBraces(_, _, _)
scanBraces(data, i, depth) ==
    IF i < Len(data) /\ depth > 0
    THEN LET b == data[i + 1]
         IN  CASE b = "{" -> scanBraces(data, i + 1, depth + 1)
               [] b = "}" -> scanBraces(data, i + 1, depth - 1)
               [] b \in {"\"", "'"} ->
                    LET j == scanQuoted(data, i + 1, b)
                    IN  IF j = Len(data)
                        THEN [i |-> j, depth |-> depth, quoteOpen |-> TRUE]
                        ELSE scanBraces(data, j + 1, depth)
               [] OTHER -> scanBraces(data, i + 1, depth)
    ELSE [i |-> i, depth |-> depth, quoteOpen |-> FALSE]

\* the attribute loop of parseTagToken (engine.go:603-713), entered with i
\* just past the tag name or the previous attribute
RECURSIVE parseAttrs(_, _, _, _, _)
parseAttrs(data, i0, name, attrs, pos) ==
    LET i == skipSpaces(data, i0)
    IN
    IF i = Len(data) THEN Incomplete
    ELSE IF data[i + 1] = ">"
    THEN TokRes(i + 1, [kind |-> "open", name |-> name, attrs |-> attrs], TRUE, NoErr)
    ELSE IF data[i + 1] = "/"
    THEN IF i + 1 = Len(data) THEN Incomplete
         ELSE IF data[i + 2] # ">"
         THEN TokRes(i + 1, NoTok, FALSE,
                     NewMalformedTagError(pos, name, "expected '>' after '/' in self-closing tag"))
         ELSE TokRes(i + 2, [kind |-> "selfclose", name |-> name, attrs |-> attrs], TRUE, NoErr)
    ELSE
    LET kStart == i
        k1 == scanName(data, i)
    IN
    IF k1 = Len(data) THEN Incomplete
    ELSE IF kStart = k1
    THEN TokRes(k1, NoTok, FALSE,
                NewMalformedTagError(pos, name, "expected attribute name or '>' or '/>'"))
    ELSE
    LET key == Slice(data, kStart, k1)
        k2 == skipSpaces(data, k1)
    IN
    IF k2 = Len(data) THEN Incomplete
    ELSE IF data[k2 + 1] # "="
    THEN TokRes(k2, NoTok, FALSE,
                NewAttributeParsingError(pos, name, key, "expected '=' after attribute name"))
    ELSE
    LET k3 == skipSpaces(data, k2 + 1)
    IN
    IF k3 = Len(data) THEN Incomplete
    ELSE IF data[k3 + 1] \in {"\"", "'"}
    THEN LET vStart == k3 + 1
             k4 == scanQuoted(data, vStart, data[k3 + 1])
         IN  IF k4 = Len(data) THEN Incomplete
             ELSE parseAttrs(data, k4 + 1, name,
                             MapSet(attrs, ToLower(key), Slice(data, vStart, k4)), pos)
    ELSE IF data[k3 + 1] = "{"
    THEN LET vStart == k3 + 1
             sb == scanBraces(data, vStart, 1)
         IN  IF sb.quoteOpen \/ sb.depth # 0 THEN Incomplete
             ELSE parseAttrs(data, sb.i, name,
                             MapSet(attrs, ToLower(key),
                                    <<"{">> \o Slice(data, vStart, sb.i - 1) \o <<"}">>), pos)
    ELSE TokRes(k3, NoTok, FALSE,
                NewAttributeParsingError(pos, name, key,
                    "expected attribute value to start with quote or brace"))

\* parseTagToken (engine.go:554-714): (consumed, token, ok, err)
parseTagToken(data, pos) ==
    IF Len(data) = 0 \/ data[1] # "<" THEN Incomplete
    ELSE IF 1 < Len(data) /\ data[2] = "/"
    THEN \* closing tag
         LET start == 2
             i == scanName(data, start)
         IN  IF i = Len(data) THEN Incomplete
             ELSE LET name == Slice(data, start, i)
                      j == skipSpaces(data, i)
                  IN  IF j = Len(data) THEN Incomplete
                      ELSE IF data[j + 1] # ">"
                      THEN TokRes(j, NoTok, FALSE,
                                  NewMalformedTagError(pos, name, "expected '>' after closing tag name"))
                      ELSE TokRes(j + 1, [kind |-> "close", name |-> name, attrs |-> EmptyAttrs],
                                  TRUE, NoErr)
    ELSE \* opening or self-closing
         LET start == 1
             i == scanName(data, start)
         IN  IF i = Len(data) THEN Incomplete
             ELSE IF start = i
             THEN TokRes(i, NoTok, FALSE,
                         NewMalformedTagError(pos, <<>>, "missing tag name after '<'"))
             ELSE parseAttrs(data, i, Slice(data, start, i), EmptyAttrs, pos)

\* ------------------------------------------------------------- validators
\* A Validator is modelled by the byte its pattern requires: a RegexValidator
\* whose Pattern is that literal (the tests use the literal pattern "func").
\* A FuncValidator carries, besides the byte its function looks for, the
\* message of the ValidationError its function returns.
Validate(v, sectionName, content, pos) ==
    IF \E i \in DOMAIN content : content[i] = v.needle
    THEN NoErr
    ELSE IF "message" \in DOMAIN v
    THEN NewValidationError(pos, sectionName, v.message)
    ELSE NewValidationError(pos, sectionName, "content does not match expected pattern")

NewValidatorRegistry == [n \in {} |-> <<>>]

canonicalName(name) == name

\* a nil Validator
NilValidator == [nil |-> TRUE]

RegisterValidator(vr, sectionName, v) ==
    IF "nil" \in DOMAIN v THEN vr
    ELSE LET n == canonicalName(sectionName)
         IN  MapSet(vr, n, (IF n \in DOMAIN vr THEN vr[n] ELSE <<>>) \o <<v>>)

\* a loop that reports the failure of the validator registered last
RECURSIVE RunValidators_TailFirst(_, _, _, _)
RunValidators_TailFirst(vs, sectionName, content, pos) ==
    IF vs = <<>> THEN NoErr
    ELSE LET e == RunValidators_TailFirst(Tail(vs), sectionName, content, pos)
         IN  IF e # NoErr THEN e ELSE Validate(Head(vs), sectionName, content, pos)

RECURSIVE RunValidators(_, _, _, _)
RunValidators(vs, sectionName, content, pos) ==
    IF vs = <<>> THEN NoErr
    ELSE LET e == Validate(Head(vs), sectionName, content, pos)
         IN  IF e # NoErr THEN e ELSE RunValidators(Tail(vs), sectionName, content, pos)

ValidateSection(vr, sectionName, content, pos) ==
    LET n == canonicalName(sectionName)
    IN  IF n \notin DOMAIN vr THEN NoErr
        ELSE RunValidators(vr[n], n, content, pos)

\* ----------------------------------------------------------------- parser
maxContextLen == 1000

StrictMode == "StrictMode"
ContinueMode == "ContinueMode"

NoElem == [nil |-> TRUE, name |-> <<>>, canon |-> <<>>, attrs |-> EmptyAttrs, body |-> <<>>]

NewElement(name, canon, attrs) ==
    [nil |-> FALSE, name |-> name, canon |-> canon, attrs |-> attrs, body |-> <<>>]

SectionEvent(name, attrs, content) == [Name |-> name, Attrs |-> attrs, Content |-> content]

\* errorHandler is "nil" or the decision the handler returns ("true"/"false");
\* sink is the sequence of events handed to HandlerSink.Emit, handled the
\* sequence of errors handed to the error handler.
newParser(reg, recoveryMode, errorHandler, validators) ==
    [reg |-> reg, buf |-> <<>>, active |-> NoElem, pos |-> StartPos,
     recoveryMode |-> recoveryMode, errorHandler |-> errorHandler,
     validators |-> validators, lastContent |-> <<>>,
     sink |-> <<>>, handled |-> <<>>]

feed(q, b) == [q EXCEPT !.buf = @ \o b]

\* Faulty variant of updateLastContent: the window keeps its oldest bytes.
updateLastContent_KeepsOldest(last, s) ==
    LET t == last \o s
    IN  IF Len(t) > maxContextLen THEN SubSeq(t, 1, maxContextLen) ELSE t

updateLastContent(last, s) ==
    LET t == last \o s
    IN  IF Len(t) > maxContextLen THEN SubSeq(t, Len(t) - maxContextLen + 1, Len(t)) ELSE t

\* Faulty variant of advance: a newline puts the column back to 1 on the same
\* line.
RECURSIVE advance_NewlineRewinds(_, _)
advance_NewlineRewinds(pos, bytes) ==
    IF bytes = <<>> THEN pos
    ELSE advance_NewlineRewinds(IF Head(bytes) = "\n"
                                THEN [Line |-> pos.Line, Column |-> 1]
                                ELSE [Line |-> pos.Line, Column |-> pos.Column + 1],
                                Tail(bytes))

RECURSIVE advance(_, _)
advance(pos, bytes) ==
    IF bytes = <<>> THEN pos
    ELSE advance(IF Head(bytes) = "\n"
                 THEN [Line |-> pos.Line + 1, Column |-> 1]
                 ELSE [Line |-> pos.Line, Column |-> pos.Column + 1],
                 Tail(bytes))

consume(q, n) ==
    LET consumed == Slice(q.buf, 0, n)
    IN  [q EXCEPT !.lastContent = updateLastContent(@, consumed),
                  !.pos = advance(@, consumed),
                  !.buf = Slice(@, n, Len(@))]

Emit(q, ev) == [q EXCEPT !.sink = Append(@, ev)]

callHandler(q, e) == [q EXCEPT !.handled = Append(@, e)]

writeBody(q, bytes) == [q EXCEPT !.active.body = @ \o bytes]

OwnClose(consumed, isClose, complete, err) ==
    [consumed |-> consumed, isClose |-> isClose, complete |-> complete, err |-> err]

\* Faulty variant of closesActive: any registered closing name closes the
\* active element (the comparison with active.canon is lost).
closesActive_AnyRegistered(q, closeName) ==
    IF CanonicalOk(q.reg, closeName)
    THEN TRUE
    ELSE EqualFold(closeName, q.active.name)

\* the name test of parseOwnClose (engine.go:424-436): TRUE when closeName
\* closes the active element
closesActive(q, closeName) ==
    IF CanonicalOk(q.reg, closeName)
    THEN Canonical(q.reg, closeName) = q.active.canon
    ELSE EqualFold(closeName, q.active.name)

\* parseOwnClose (engine.go:391-454)
parseOwnClose(q, data) ==
    IF q.active.nil THEN OwnClose(0, FALSE, TRUE, NoErr)
    ELSE IF Len(data) < 2 \/ data[1] # "<" \/ data[2] # "/"
    THEN OwnClose(0, FALSE, TRUE, NoErr)
    ELSE
    LET i0 == skipSpaces(data, 2)
    IN
    IF i0 = Len(data) THEN OwnClose(0, FALSE, FALSE, NoErr)
    ELSE
    LET start == i0
        i == scanName(data, start)
    IN
    IF i = start
    THEN IF q.recoveryMode = StrictMode
         THEN OwnClose(i, FALSE, TRUE,
                       NewMalformedTagError(q.pos, <<>>, "missing tag name after '</'"))
         ELSE OwnClose(0, FALSE, TRUE, NoErr)
    ELSE IF i = Len(data) THEN OwnClose(0, FALSE, FALSE, NoErr)
    ELSE
    LET closeName == ToLower(Slice(data, start, i))
    IN
    IF ~closesActive(q, closeName) THEN OwnClose(0, FALSE, TRUE, NoErr)
    ELSE
    LET j == skipSpaces(data, i)
    IN
    IF j = Len(data) THEN OwnClose(0, FALSE, FALSE, NoErr)
    ELSE IF data[j + 1] # ">"
    THEN IF q.recoveryMode = StrictMode
         THEN OwnClose(j, FALSE, TRUE,
                       NewMalformedTagError(q.pos, closeName,
                                            "expected '>' after closing tag name"))
         ELSE OwnClose(0, FALSE, TRUE, NoErr)
    ELSE OwnClose(j + 1, TRUE, TRUE, NoErr)

\* One iteration of drain's loop gives a Step: go = TRUE for "continue",
\* go = FALSE for "return err".
Step(q, go, err) == [p |-> q, go |-> go, err |-> err]

\* Faulty variant of closeActive: the event is emitted without validation.
closeActive_NoValidation(q) ==
    Step(Emit([q EXCEPT !.active = NoElem],
              SectionEvent(q.active.canon, q.active.attrs, q.active.body)),
         TRUE, NoErr)

\* drain, accepted close of the active section (engine.go:277-318); q has the
\* closing tag consumed already
closeActive(q) ==
    LET content == q.active.body
        sectionName == q.active.canon
        verr == ValidateSection(q.validators, sectionName, content, q.pos)
    IN
    IF verr # NoErr
    THEN IF q.errorHandler # "nil"
         THEN IF q.errorHandler = "true"
              THEN Step([callHandler(q, verr) EXCEPT !.active = NoElem], TRUE, NoErr)
              ELSE Step(callHandler(q, verr), FALSE, verr)
         ELSE IF q.recoveryMode = StrictMode
              THEN Step(q, FALSE, verr)
              ELSE Step([q EXCEPT !.active = NoElem], TRUE, NoErr)
    ELSE Step(Emit([q EXCEPT !.active = NoElem],
                   SectionEvent(sectionName, q.active.attrs, content)),
              TRUE, NoErr)

\* drain, "not our closing tag": the leading '<' (or "</") is literal text
\* (engine.go:320-329)
literalLt(q, data) ==
    IF Len(data) >= 2 /\ data[2] = "/"
    THEN Step(consume(writeBody(q, <<"<", "/">>), 2), TRUE, NoErr)
    ELSE Step(consume(writeBody(q, <<"<">>), 1), TRUE, NoErr)

\* Faulty variant of activeAtLt: the Position moves past the '<' of a closing
\* tag that is still incomplete.
activeAtLt_IncompleteCounts(q, data, r) ==
    IF r.err # NoErr
    THEN IF q.recoveryMode = ContinueMode
         THEN Step(consume(q, r.consumed), TRUE, NoErr)
         ELSE Step(q, FALSE, r.err)
    ELSE IF ~r.complete THEN Step([q EXCEPT !.pos = advance(@, <<"<">>)], FALSE, NoErr)
    ELSE IF r.isClose THEN closeActive(consume(q, r.consumed))
    ELSE literalLt(q, data)

\* drain at a '<' while a section is active (engine.go:263-329); r is what
\* parseOwnClose(data) returned
activeAtLt(q, data, r) ==
    IF r.err # NoErr
    THEN IF q.recoveryMode = ContinueMode
         THEN Step(consume(q, r.consumed), TRUE, NoErr)
         ELSE Step(q, FALSE, r.err)
    ELSE IF ~r.complete THEN Step(q, FALSE, NoErr)
    ELSE IF r.isClose THEN closeActive(consume(q, r.consumed))
    ELSE literalLt(q, data)

\* drain while a section is active (engine.go:245-330)
drainActive(q, data) ==
    LET lt == IndexByte(data, "<")
    IN
    IF lt = -1 THEN Step(consume(writeBody(q, data), Len(data)), TRUE, NoErr)
    ELSE IF lt > 0 THEN Step(consume(writeBody(q, Slice(data, 0, lt)), lt), TRUE, NoErr)
    ELSE activeAtLt(q, data, parseOwnClose(q, data))

\* Faulty variant of onToken: the element keeps the spelling of its open tag
\* as its canonical name.
onToken_RawCanon(q, tok) ==
    CASE tok.kind = "open" ->
            IF CanonicalOk(q.reg, tok.name)
            THEN Step([q EXCEPT !.active = NewElement(tok.name, tok.name, tok.attrs)],
                      TRUE, NoErr)
            ELSE Step(q, TRUE, NoErr)
      [] tok.kind = "selfclose" ->
            IF CanonicalOk(q.reg, tok.name)
            THEN Step(Emit(q, SectionEvent(Canonical(q.reg, tok.name), tok.attrs, <<>>)),
                      TRUE, NoErr)
            ELSE Step(q, TRUE, NoErr)
      [] tok.kind = "close" ->
            IF q.recoveryMode = StrictMode
            THEN Step(q, FALSE, NewUnmatchedTagError(q.pos, tok.name))
            ELSE Step(q, TRUE, NoErr)

\* Faulty variant of onToken: a closing tag outside a section is ignored in
\* every recovery mode.
onToken_CloseIgnored(q, tok) ==
    CASE tok.kind = "open" ->
            IF CanonicalOk(q.reg, tok.name)
            THEN Step([q EXCEPT !.active =
                          NewElement(tok.name, Canonical(q.reg, tok.name), tok.attrs)],
                      TRUE, NoErr)
            ELSE Step(q, TRUE, NoErr)
      [] tok.kind = "selfclose" ->
            IF CanonicalOk(q.reg, tok.name)
            THEN Step(Emit(q, SectionEvent(Canonical(q.reg, tok.name), tok.attrs, <<>>)),
                      TRUE, NoErr)
            ELSE Step(q, TRUE, NoErr)
      [] tok.kind = "close" -> Step(q, TRUE, NoErr)

\* Faulty variant of onToken: a recognized self-closing tag opens a section
\* instead of emitting its event.
onToken_SelfCloseOpens(q, tok) ==
    CASE tok.kind \in {"open", "selfclose"} ->
            IF CanonicalOk(q.reg, tok.name)
            THEN Step([q EXCEPT !.active =
                          NewElement(tok.name, Canonical(q.reg, tok.name), tok.attrs)],
                      TRUE, NoErr)
            ELSE Step(q, TRUE, NoErr)
      [] tok.kind = "close" ->
            IF q.recoveryMode = StrictMode
            THEN Step(q, FALSE, NewUnmatchedTagError(q.pos, tok.name))
            ELSE Step(q, TRUE, NoErr)

\* Faulty variant of onToken: an open tag with an unregistered name starts a
\* section as well.
onToken_UnknownOpens(q, tok) ==
    CASE tok.kind = "open" ->
            Step([q EXCEPT !.active =
                     NewElement(tok.name,
                                IF CanonicalOk(q.reg, tok.name)
                                THEN Canonical(q.reg, tok.name) ELSE ToLower(tok.name),
                                tok.attrs)],
                 TRUE, NoErr)
      [] tok.kind = "selfclose" ->
            IF CanonicalOk(q.reg, tok.name)
            THEN Step(Emit(q, SectionEvent(Canonical(q.reg, tok.name), tok.attrs, <<>>)),
                      TRUE, NoErr)
            ELSE Step(q, TRUE, NoErr)
      [] tok.kind = "close" ->
            IF q.recoveryMode = StrictMode
            THEN Step(q, FALSE, NewUnmatchedTagError(q.pos, tok.name))
            ELSE Step(q, TRUE, NoErr)

\* drain, the switch on the token kind (engine.go:362-383); q has the token
\* consumed already
onToken(q, tok) ==
    CASE tok.kind = "open" ->
            IF CanonicalOk(q.reg, tok.name)
            THEN Step([q EXCEPT !.active =
                          NewElement(tok.name, Canonical(q.reg, tok.name), tok.attrs)],
                      TRUE, NoErr)
            ELSE Step(q, TRUE, NoErr)
      [] tok.kind = "selfclose" ->
            IF CanonicalOk(q.reg, tok.name)
            THEN Step(Emit(q, SectionEvent(Canonical(q.reg, tok.name), tok.attrs, <<>>)),
                      TRUE, NoErr)
            ELSE Step(q, TRUE, NoErr)
      [] tok.kind = "close" ->
            IF q.recoveryMode = StrictMode
            THEN Step(q, FALSE, NewUnmatchedTagError(q.pos, tok.name))
            ELSE Step(q, TRUE, NoErr)

\* Faulty variant of idleText: text with no '<' after it stays in the buffer.
idleText_Kept(q, data, lt) ==
    IF lt = -1
    THEN Step(q, FALSE, NoErr)
    ELSE Step(consume(q, lt), TRUE, NoErr)

\* drain, text outside any section (engine.go:333-343)
idleText(q, data, lt) ==
    IF lt = -1
    THEN Step([q EXCEPT !.buf = <<>>], FALSE, NoErr)      \* p.buf.Reset()
    ELSE Step(consume(q, lt), TRUE, NoErr)

\* Faulty variant of idleAtLt: a tokenizer error is returned in Continue mode
\* as well, its bytes left in the buffer.
idleAtLt_ErrorStops(q, r) ==
    IF r.err # NoErr THEN Step(q, FALSE, r.err)
    ELSE IF ~r.ok THEN Step(q, FALSE, NoErr)
    ELSE onToken(consume(q, r.consumed), r.tok)

\* Faulty variant of idleAtLt: a tokenizer error is skipped in Strict mode as
\* it is in Continue mode.
idleAtLt_ErrorSkipped(q, r) ==
    IF r.err # NoErr THEN Step(consume(q, r.consumed), TRUE, NoErr)
    ELSE IF ~r.ok THEN Step(q, FALSE, NoErr)
    ELSE onToken(consume(q, r.consumed), r.tok)

\* Faulty variant of idleAtLt: Continue-mode recovery skips the offending byte
\* as well.
idleAtLt_SkipsOffending(q, r) ==
    IF r.err # NoErr
    THEN IF q.recoveryMode = ContinueMode
         THEN Step(consume(q, r.consumed + 1), TRUE, NoErr)
         ELSE Step(q, FALSE, r.err)
    ELSE IF ~r.ok THEN Step(q, FALSE, NoErr)
    ELSE onToken(consume(q, r.consumed), r.tok)

\* Faulty variant of idleAtLt: the open tag of a registered section is left
\* in the buffer when the section is entered.
idleAtLt_OpenNotConsumed(q, r) ==
    IF r.err # NoErr
    THEN IF q.recoveryMode = ContinueMode
         THEN Step(consume(q, r.consumed), TRUE, NoErr)
         ELSE Step(q, FALSE, r.err)
    ELSE IF ~r.ok THEN Step(q, FALSE, NoErr)
    ELSE IF r.tok.kind = "open" /\ CanonicalOk(q.reg, r.tok.name)
    THEN onToken(q, r.tok)
    ELSE onToken(consume(q, r.consumed), r.tok)

\* drain at a '<' while no section is active (engine.go:346-383); r is what
\* parseTagToken(data) returned
idleAtLt(q, r) ==
    IF r.err # NoErr
    THEN IF q.recoveryMode = ContinueMode
         THEN Step(consume(q, r.consumed), TRUE, NoErr)
         ELSE Step(q, FALSE, r.err)
    ELSE IF ~r.ok THEN Step(q, FALSE, NoErr)
    ELSE onToken(consume(q, r.consumed), r.tok)

\* drain while no section is active (engine.go:332-383)
drainIdle(q, data) ==
    LET lt == IndexByte(data, "<")
    IN
    IF lt # 0 THEN idleText(q, data, lt)
    ELSE idleAtLt(q, parseTagToken(data, q.pos))

drainStep(q) ==
    IF Len(q.buf) = 0 THEN Step(q, FALSE, NoErr)
    ELSE IF ~q.active.nil THEN drainActive(q, q.buf)
    ELSE drainIdle(q, q.buf)

\* drain (engine.go:237-385): (parser after, error). drainLoop takes the
\* Step of one iteration and goes round the for loop again or returns.
RECURSIVE drain(_)
RECURSIVE drainLoop(_)
drainLoop(s) == IF s.go THEN drain(s.p) ELSE [p |-> s.p, err |-> s.err]

drain(q) == drainLoop(drainStep(q))

\* Faulty variant of finish: the bytes left in the buffer are discarded
\* instead of joining the body.
finish_DropsBuffer(q) ==
    LET q1 == [q EXCEPT !.buf = <<>>]
    IN
    IF ~q1.active.nil /\ q1.active.canon # <<>>
    THEN LET content == q1.active.body
             sectionName == q1.active.canon
             verr == ValidateSection(q1.validators, sectionName, content, q1.pos)
             ev == SectionEvent(sectionName, q1.active.attrs, content)
         IN  IF verr # NoErr /\ q1.errorHandler # "nil" /\ q1.errorHandler # "true"
             THEN [p |-> callHandler(q1, verr), err |-> verr]
             ELSE IF verr # NoErr /\ q1.errorHandler = "nil" /\ q1.recoveryMode = StrictMode
             THEN [p |-> q1, err |-> verr]
             ELSE [p |-> [Emit(IF verr # NoErr /\ q1.errorHandler # "nil"
                               THEN callHandler(q1, verr) ELSE q1, ev)
                          EXCEPT !.active = NoElem],
                   err |-> NoErr]
    ELSE [p |-> q1, err |-> NoErr]

\* finish (engine.go:456-496)
finish(q) ==
    LET q1 == IF Len(q.buf) > 0 /\ ~q.active.nil
              THEN [writeBody(q, q.buf) EXCEPT !.buf = <<>>]
              ELSE [q EXCEPT !.buf = <<>>]
    IN
    IF ~q1.active.nil /\ q1.active.canon # <<>>
    THEN LET content == q1.active.body
             sectionName == q1.active.canon
             verr == ValidateSection(q1.validators, sectionName, content, q1.pos)
             ev == SectionEvent(sectionName, q1.active.attrs, content)
         IN  IF verr # NoErr /\ q1.errorHandler # "nil" /\ q1.errorHandler # "true"
             THEN [p |-> callHandler(q1, verr), err |-> verr]
             ELSE IF verr # NoErr /\ q1.errorHandler = "nil" /\ q1.recoveryMode = StrictMode
             THEN [p |-> q1, err |-> verr]
             ELSE [p |-> [Emit(IF verr # NoErr /\ q1.errorHandler # "nil"
                               THEN callHandler(q1, verr) ELSE q1, ev)
                          EXCEPT !.active = NoElem],
                   err |-> NoErr]
    ELSE [p |-> q1, err |-> NoErr]

\* ---------------------------------------------------------- ProcessStream
\* Faulty variant of afterDrain: without a handler an error that drain returns
\* is dropped in Strict mode as it is in Continue mode.
afterDrain_StrictContinues(r) ==
    IF r.err = NoErr THEN [p |-> r.p, stop |-> FALSE, err |-> NoErr]
    ELSE IF r.p.errorHandler # "nil"
    THEN [p |-> callHandler(r.p, r.err),
          stop |-> r.p.errorHandler # "true",
          err |-> IF r.p.errorHandler = "true" THEN NoErr ELSE r.err]
    ELSE [p |-> r.p, stop |-> FALSE, err |-> NoErr]

\* The body of ProcessStream's loop for one chunk read with n > 0
\* (engine.go:117-137): feed, drain, then the handler or the recovery mode
\* decides whether the loop goes on.
afterDrain(r) ==
    IF r.err = NoErr THEN [p |-> r.p, stop |-> FALSE, err |-> NoErr]
    ELSE IF r.p.errorHandler # "nil"
    THEN [p |-> callHandler(r.p, r.err),
          stop |-> r.p.errorHandler # "true",
          err |-> IF r.p.errorHandler = "true" THEN NoErr ELSE r.err]
    ELSE IF r.p.recoveryMode = ContinueMode
    THEN [p |-> r.p, stop |-> FALSE, err |-> NoErr]
    ELSE [p |-> r.p, stop |-> TRUE, err |-> r.err]

onChunk(q, chunk) == afterDrain(drain(feed(q, chunk)))

\* ------------------------------------------------------------ the streams
MaxChunk == 2

SectionPlugins ==
    << [Name |-> <<"t">>, Aliases |-> << <<"a">>, <<"W">> >>],
       [Name |-> <<"S">>, Aliases |-> << >>] >>

RECURSIVE RegisterAll(_, _)
RegisterAll(r, plugins) ==
    IF plugins = <<>> THEN r ELSE RegisterAll(Register(r, Head(plugins)), Tail(plugins))

TestRegistry == RegisterAll(NewRegistry, SectionPlugins)

NeedsF == RegisterValidator(NewValidatorRegistry, <<"t">>, [needle |-> "f"])

ValidatorConfigs == { NewValidatorRegistry, NeedsF }

Opens ==
    { <<"<", "t", ">">>,
      <<"<", "a", " ", "k", "=", "\"", "v", "\"", ">">>,
      <<"<", "T", ">">>,
      <<"<", "s", ">">> }

Bodies ==
    { <<>>,
      <<"f">>,
      <<"x", "\n">>,
      <<"<", "s", ">", "f">>,
      <<"f", "<", "/", "s", ">">>,
      <<"<", "t", "/", ">", "f">>,
      <<"f", "<", "/", ">">>,
      <<"<", "/", "t", "!">>,
      <<"f", "<", " ">> }

Closes ==
    { <<>>,
      <<"<", "/", "t", ">">>,
      <<"<", "/", "a", " ", ">">>,
      <<"<", "/", " ", "T", ">">>,
      <<"<", "/", "t">> }

Pres ==
    { <<>>,
      <<"x", "\n">> }

IdleTags ==
    { <<"<", "/", "b", ">">>,
      <<"<", "/", "t", ">">>,
      <<"<", "/", "t", " ", ">">>,
      <<"<", "/", " ", "b", " ", ">">>,
      <<"<", "/", ">">>,
      <<"<", "t", "/", ">">>,
      <<"<", "S", " ", "k", "=", "'", "v", "'", " ", "/", ">">>,
      <<"<", "b", "/", ">">>,
      <<"<", "a", " ", "k", "=", "{", "\"", "}", "\"", "}", "/", ">">>,
      <<"<", "t", " ", "k", ">">>,
      <<"<", "S", " ", "K", " ", "/", ">">>,
      <<"<", ">">>,
      <<"<", "b", ">">>,
      <<"<", "t", " ", "k", "=", "v", ">">> }

Posts ==
    { <<>>,
      <<"<", "t", ">", "f", "<", "/", "t", ">">> }

Scenarios ==
    { <<"<", "/", "b", ">", "<", "t", ">", "x", "<", "/", "t", ">", "<", "/", "b", ">">>,
      <<"<", "t", " ", "k", "=", "\"", "v", "\"", ">", "f", "<", "/", "t", ">", "<", "s", ">", "x", "<", "/", "s", ">">>,
      <<"<", "t", ">", "f", "<", "/", "t", ">", "<", "/", "b", ">", "<", "s", ">", "x", "<", "/", "s", ">">>,
      <<"<", "W", ">", "f">>,
      <<"<", "<", "t", ">", "f", "<", "/", "t", ">">>,
      <<"<", "t", " ", "k", "<", "s", ">", "x", "<", "/", "s", ">">>,
      <<"<", "B", " ", "k", "=", "\"", "v", "\"", ">", "<", "t", ">", "f", "<", "/", "t", ">", "<", "/", "b", ">">>,
      <<"<", "t", ">", "x", "<", "/", "t", ">", "<", "s", ">", "x", "<", "/", "s", ">">>,
      <<"<", "s", ">", "x", "<", "/", "s", ">", "<", "t", "/", ">", "<", "W", ">", "f">>,
      <<>>,
      <<"x", "<", "t", ">", "f", "<", "/", "t", ">", "y", "<", "s", ">", "x", "<", "/", "s", ">", "z">> }

\* self-closing tags of t with attributes, and the attributes they carry
AttrCases ==
    { [bytes |-> <<"<", "t", " ", "K", "=", "\"", "a", "\\", "\"", "b", "\"", "/", ">">>,
       attrs |-> MapSet(EmptyAttrs, <<"k">>, <<"a", "\\", "\"", "b">>)],
      [bytes |-> <<"<", "t", " ", "k", "=", "\"", "i", "'", "s", "\"", "/", ">">>,
       attrs |-> MapSet(EmptyAttrs, <<"k">>, <<"i", "'", "s">>)],
      [bytes |-> <<"<", "t", " ", "k", "=", "'", "1", "'", " ", "J", "=", "\"", "2", "\"", "/", ">">>,
       attrs |-> MapSet(MapSet(EmptyAttrs, <<"k">>, <<"1">>), <<"j">>, <<"2">>)],
      [bytes |-> <<"<", "t", " ", "k", "=", "\"", "1", "\"", " ", "J", "=", "\"", "2", "\"", "/", ">">>,
       attrs |-> MapSet(MapSet(EmptyAttrs, <<"k">>, <<"1">>), <<"j">>, <<"2">>)],
      [bytes |-> <<"<", "t", " ", "k", "=", "'", "1", "'", " ", "J", "=", "'", "2", "'", "/", ">">>,
       attrs |-> MapSet(MapSet(EmptyAttrs, <<"k">>, <<"1">>), <<"j">>, <<"2">>)],
      [bytes |-> <<"<", "t", " ", "k", "=", "{", "a", "{", "'", "}", "'", "}", "b", "}", "/", ">">>,
       attrs |-> MapSet(EmptyAttrs, <<"k">>, <<"{", "a", "{", "'", "}", "'", "}", "b", "}">>)] }

Inputs ==
    { o \o b \o c : o \in Opens, b \in Bodies, c \in Closes }
    \cup { a \o g \o z : a \in Pres, g \in IdleTags, z \in Posts }
    \cup Scenarios
    \cup { c.bytes : c \in AttrCases }

ChunkSizes(rem) == { n \in 1..MaxChunk : n <= rem } \cup { rem }

\* --------------------------------------------------------- state machine
Init ==
    /\ input \in Inputs
    /\ fed = 0
    /\ \E mode \in {StrictMode, ContinueMode}, h \in {"nil", "true", "false"},
          vr \in ValidatorConfigs :
          p = newParser(TestRegistry, mode, h, vr)
    /\ pc = "reading"
    /\ result = NoErr

\* br.Read returned n > 0 bytes: feed them and drain
Read(n) ==
    /\ pc = "reading"
    /\ fed < Len(input)
    /\ n \in ChunkSizes(Len(input) - fed)
    /\ \E r \in {onChunk(p, Slice(input, fed, fed + n))} :
           /\ p' = r.p
           /\ pc' = IF r.stop THEN "done" ELSE "reading"
           /\ result' = r.err
    /\ fed' = fed + n
    /\ UNCHANGED input

\* br.Read returned io.EOF: ProcessStream returns p.finish()
ReadEOF ==
    /\ pc = "reading"
    /\ fed = Len(input)
    /\ \E r \in {finish(p)} :
           /\ p' = r.p
           /\ result' = r.err
    /\ pc' = "done"
    /\ UNCHANGED <<input, fed>>

Next == (\E n \in 1..Len(input) : Read(n)) \/ ReadEOF

Spec == Init /\ [][Next]_vars

\* A stream longer than the context window: one section whose body has
\* LongLen bytes, a newline every seventh byte.
LongLen == 1003

LongInput ==
    <<"<", "t", ">">> \o
    [i \in 1..LongLen |-> IF i % 7 = 0 THEN "\n" ELSE LowerLetters[(i % 26) + 1]]

InitContext ==
    /\ input = LongInput
    /\ fed = 0
    /\ \E mode \in {StrictMode, ContinueMode} :
          p = newParser(TestRegistry, mode, "nil", NewValidatorRegistry)
    /\ pc = "reading"
    /\ result = NoErr

\* the reader delivers the long stream in chunks of MaxChunk bytes at most
NextContext == (\E n \in 1..MaxChunk : Read(n)) \/ ReadEOF

SpecContext == InitContext /\ [][NextContext]_vars

\* The registry is filled before the stream is processed: p.reg stands for the
\* Registry the Engine holds (e.reg), the pointer newParser receives.
Plugins ==
    { [Name |-> <<"t">>, Aliases |-> << <<"a">>, <<"W">> >>],
      [Name |-> <<"S">>, Aliases |-> << >>],
      [Name |-> <<"s">>, Aliases |-> << <<"A">> >>],
      [Name |-> <<"T">>, Aliases |-> << <<>>, <<"s">> >>],
      [Name |-> <<>>, Aliases |-> << <<"x">> >>] }

RegistryInputs ==
    { <<"<", "A", ">", "f", "<", "/", "a", ">">>,
      <<"<", "T", ">", "f", "<", "/", "w", ">">>,
      <<"<", "S", "/", ">">>,
      <<"<", "x", "/", ">">> }

InitRegistry ==
    /\ input \in RegistryInputs
    /\ fed = 0
    /\ p = newParser(NewRegistry, ContinueMode, "nil", NewValidatorRegistry)
    /\ pc = "setup"
    /\ result = NoErr

\* reg.Register(plugin)
RegisterPlugin(plugin) ==
    /\ pc = "setup"
    /\ p' = [p EXCEPT !.reg = Register(@, plugin)]
    /\ UNCHANGED <<input, fed, pc, result>>

\* ProcessStream is called: the parser is made with the registry as it is now
StartStream ==
    /\ pc = "setup"
    /\ pc' = "reading"
    /\ UNCHANGED <<input, fed, p, result>>

NextRegistry ==
    \/ \E plugin \in Plugins : RegisterPlugin(plugin)
    \/ StartStream
    \/ \E n \in 1..Len(input) : Read(n)
    \/ ReadEOF

SpecRegistry == InitRegistry /\ [][NextRegistry]_vars

\* Validator registration: an engine over TestRegistry on which validators
\* are registered (RegisterValidator, RegisterRegexValidator,
\* RegisterFuncValidator) before one stream of a single section is processed.
MaxValidators == 3

HasF == [needle |-> "f"]
HasX == [needle |-> "x", message |-> "no x"]

Validators == { HasF, HasX, NilValidator }

ValidatorNames == { <<"t">>, <<"S">> }

ValidatorInputs ==
    { <<"<", "t", ">", "f", "<", "/", "t", ">">>,
      <<"<", "T", ">", "x", "<", "/", "t", ">">>,
      <<"<", "t", ">", "f", "x", "<", "/", "t", ">">>,
      <<"<", "a", ">", "<", "/", "W", ">">>,
      <<"<", "s", ">", "y", "<", "/", "s", ">">>,
      <<"<", "S", ">", "f", "x", "<", "/", "S", ">">> }

RECURSIVE Registered(_, _)
Registered(vr, names) ==
    IF names = {} THEN 0
    ELSE LET n == CHOOSE m \in names : TRUE
         IN  Len(vr[n]) + Registered(vr, names \ {n})

InitValidators ==
    /\ input \in ValidatorInputs
    /\ fed = 0
    /\ \E mode \in {StrictMode, ContinueMode} :
          p = newParser(TestRegistry, mode, "nil", NewValidatorRegistry)
    /\ pc = "setup"
    /\ result = NoErr

\* e.RegisterValidator(sectionName, v)
RegisterValidatorStep(sectionName, v) ==
    /\ pc = "setup"
    /\ Registered(p.validators, DOMAIN p.validators) < MaxValidators
    /\ p' = [p EXCEPT !.validators = RegisterValidator(@, sectionName, v)]
    /\ UNCHANGED <<input, fed, pc, result>>

NextValidators ==
    \/ \E sectionName \in ValidatorNames, v \in Validators :
           RegisterValidatorStep(sectionName, v)
    \/ StartStream
    \/ \E n \in 1..Len(input) : Read(n)
    \/ ReadEOF

SpecValidators == InitValidators /\ [][NextValidators]_vars

\* Successive calls: one engine on which ProcessStream is called for a first
\* stream and, once that call has returned, for a second one (with a sink and
\* a handler log of its own).
FirstInputs ==
    { <<"<", "t", ">", "x", "\n", "<", "/", "t", ">">>,
      <<"<", "t", " ", "k", ">", "<", "t", ">">>,
      <<"<", "W", ">", "f">>,
      <<"x", "\n", "<", "t", ">", "f", "<", "/", "t", ">", "<", "/", "b", ">", "<", "s", ">">>,
      <<"<", "s", ">", "x", "<", "/", "s", ">", "<", "t", " ", "k", "=", "\"">> }

SecondInputs ==
    { <<"<", "t", "/", ">", "<", "S", " ", "k", "=", "'", "v", "'", " ", "/", ">">>,
      <<"<", "t", "/", ">", "<", "/", "b", ">">>,
      <<"<", "/", "t", ">">>,
      <<>> }

\* Faulty variant of processStreamParser: the parser of the earlier call is
\* used again.
processStreamParser_Reused(q) == [q EXCEPT !.sink = <<>>, !.handled = <<>>]

\* the parser ProcessStream builds (engine.go:110-111) on the engine whose
\* registry, options and validators the parser q of the earlier call had
processStreamParser(q) ==
    newParser(q.reg, q.recoveryMode, q.errorHandler, q.validators)

InitCalls ==
    /\ input \in FirstInputs
    /\ fed = 0
    /\ \E mode \in {StrictMode, ContinueMode}, h \in {"nil", "true", "false"},
          vr \in ValidatorConfigs :
          p = newParser(TestRegistry, mode, h, vr)
    /\ pc = "reading"
    /\ result = NoErr

\* the earlier call has returned; e.ProcessStream(r, sink) is called again
NextCall(r) ==
    /\ pc = "done"
    /\ input \in FirstInputs
    /\ input' = r
    /\ fed' = 0
    /\ p' = processStreamParser(p)
    /\ pc' = "reading"
    /\ result' = NoErr

NextCalls ==
    \/ \E n \in 1..Len(input) : Read(n)
    \/ ReadEOF
    \/ \E r \in SecondInputs : NextCall(r)

SpecCalls == InitCalls /\ [][NextCalls]_vars

\* ProcessStream (engine.go:105-146) when the reader delivers inp in one Read
\* and then io.EOF
afterChunk(r) == IF r.stop THEN [p |-> r.p, err |-> r.err] ELSE finish(r.p)

ProcessWhole(q0, inp) ==
    IF inp = <<>> THEN finish(q0) ELSE afterChunk(onChunk(q0, inp))

\* ------------------------------------------------------------- properties
\* the bytes p.buf holds once the chunk read in this step is fed
Pending == p.buf \o Slice(input, fed, fed')

IsReadStep == pc = "reading" /\ fed' > fed

IsEOFStep == pc = "reading" /\ pc' = "done" /\ fed' = fed

HasLt(text) == \E i \in DOMAIN text : text[i] = "<"

\* text from its 0-based index i on
From(text, i) == Slice(text, i, Len(text))

\* s is "</" name-chars+ whitespace* ">" and nothing more
IsCloseTag(s) ==
    /\ Len(s) >= 4 /\ s[1] = "<" /\ s[2] = "/"
    /\ LET i == scanName(s, 2)
       IN  /\ i > 2
           /\ skipSpaces(s, i) = Len(s) - 1
           /\ s[Len(s)] = ">"

CloseTagName(s) == Slice(s, 2, scanName(s, 2))

\* s begins with "</" whitespace* name whitespace* ">" ; the name of that tag
BeginsWithClose(s) ==
    /\ Len(s) >= 2 /\ s[1] = "<" /\ s[2] = "/"
    /\ LET a == skipSpaces(s, 2)
           b == scanName(s, a)
           c == skipSpaces(s, b)
       IN  b > a /\ c < Len(s) /\ s[c + 1] = ">"

BeginsWithCloseName(s) ==
    LET a == skipSpaces(s, 2) IN Slice(s, a, scanName(s, a))

\* s begins with "</" whitespace* name and a byte that ends the name
BeginsWithCloseOf(s) ==
    /\ Len(s) >= 2 /\ s[1] = "<" /\ s[2] = "/"
    /\ LET a == skipSpaces(s, 2)
           b == scanName(s, a)
       IN  b > a /\ b < Len(s)

Resolves(name, canon) == CanonicalOk(TestRegistry, name) /\ Canonical(TestRegistry, name) = canon

\* text holds a closing tag accepted for the canonical name canon
HasOwnClose(text, canon) ==
    \E i \in 0..(Len(text) - 1) :
        /\ BeginsWithClose(From(text, i))
        /\ Resolves(BeginsWithCloseName(From(text, i)), canon)

\* the active element is the same section, body apart
SameSection(e1, e2) ==
    /\ ~e1.nil /\ ~e2.nil
    /\ e1.name = e2.name /\ e1.canon = e2.canon /\ e1.attrs = e2.attrs

FreshParser == newParser(p.reg, p.recoveryMode, p.errorHandler, p.validators)

\* C1: chunk-invariance. However the input is split into chunks, the events
\* emitted when ProcessStream returns are those emitted for the unsplit input.
C1_ChunkInvariance ==
    pc = "done" => p.sink = ProcessWhole(FreshParser, input).p.sink

\* every '<' of text starts an open or self-closing tag of a registered name,
\* or a closing tag whose name resolves to another canonical name than canon
OnlyForeignTags(text, canon) ==
    \A i \in 0..(Len(text) - 1) :
        text[i + 1] = "<" =>
            LET s == From(text, i)
                n == scanName(s, 1)
            IN  \/ /\ n > 1 /\ n < Len(s) /\ s[n + 1] \in {">", "/", " "}
                   /\ CanonicalOk(TestRegistry, Slice(s, 1, n))
                \/ /\ BeginsWithCloseOf(s)
                   /\ CanonicalOk(TestRegistry, BeginsWithCloseName(s))
                   /\ ~Resolves(BeginsWithCloseName(s), canon)

C2_Step ==
    (IsReadStep /\ ~p.active.nil /\ HasLt(Pending)
        /\ OnlyForeignTags(Pending, p.active.canon))
    => /\ pc' = "reading" /\ result' = NoErr
       /\ p'.sink = p.sink
       /\ SameSection(p.active, p'.active)
       /\ p'.active.body \o p'.buf = p.active.body \o Pending

C3_Step ==
    (IsReadStep /\ ~p.active.nil /\ ~HasOwnClose(Pending, p.active.canon))
    => /\ pc' = "reading" /\ result' = NoErr /\ p'.handled = p.handled
       /\ p'.sink = p.sink
       /\ SameSection(p.active, p'.active)
       /\ p'.active.body \o p'.buf = p.active.body \o Pending

\* C3: while a section is active, in every recovery mode, a '<' that does not
\* begin an accepted close of the active element is literal body text: no
\* error is raised and the section stays active.
C3_LiteralLt == [][C3_Step]_vars

\* the closing tags among Closes
FullCloses == { c \in Closes : BeginsWithClose(c) }

\* C4: the content of a section closed by a closing tag is exactly the bytes
\* between the '>' of its open tag and the '<' of the first closing tag whose
\* name resolves to the active canonical name.
C4_ContentVerbatim ==
    pc = "done" =>
        \A o \in Opens, b \in Bodies, c \in FullCloses :
            (/\ input = o \o b \o c
             /\ Resolves(BeginsWithCloseName(c), Canonical(TestRegistry, Slice(o, 1, scanName(o, 1))))
             /\ ~HasOwnClose(b, Canonical(TestRegistry, Slice(o, 1, scanName(o, 1)))))
            => \A i \in DOMAIN p.sink : p.sink[i].Content = b

\* the name an open tag of Opens is spelled with
OpenName(o) == Slice(o, 1, scanName(o, 1))

\* the canonical names and the other spellings SectionPlugins registers
CanonicalNames == { <<"t">>, <<"s">> }
AliasSpellings == { <<"a">>, <<"A">>, <<"w">>, <<"W">>, <<"T">>, <<"S">> }

\* C5: a section opened with one registered spelling and closed with another
\* spelling of the same canonical name yields exactly one event, and an
\* event's Name is always the canonical name, never an alias spelling.
C5_AliasCanonical ==
    /\ \A i \in DOMAIN p.sink :
          p.sink[i].Name \in CanonicalNames /\ p.sink[i].Name \notin AliasSpellings
    /\ (pc = "done" /\ result = NoErr) =>
          \A o \in Opens, b \in Bodies, c \in FullCloses :
              (/\ input = o \o b \o c
               /\ \E n \in CanonicalNames :
                     /\ Resolves(OpenName(o), n) /\ Resolves(BeginsWithCloseName(c), n)
                     /\ n \notin DOMAIN p.validators)
              => /\ Len(p.sink) = 1
                 /\ Resolves(OpenName(o), p.sink[1].Name)

C5_Witness ==
    /\ pc = "done" /\ result = NoErr
    /\ input = <<"<", "a", " ", "k", "=", "\"", "v", "\"", ">", "x", "\n", "<", "/", " ", "T", ">">>
    /\ Len(p.sink) = 1 /\ p.sink[1].Name = <<"t">>
    /\ p.sink[1].Content = <<"x", "\n">>

C6_Step ==
    (IsEOFStep /\ ~p.active.nil /\ result' = NoErr)
    => /\ p.active.canon \in CanonicalNames
       /\ Resolves(p.active.name, p.active.canon)
       /\ p'.sink = Append(p.sink, [Name |-> p.active.canon,
                                    Attrs |-> p.active.attrs,
                                    Content |-> p.active.body \o p.buf])
       /\ p'.active.nil
       /\ p'.buf = <<>>

\* C6: when the stream ends while a section is active and ProcessStream
\* returns no error, finish emits exactly one event for that section: its
\* canonical name, the open tag's attributes, and as content the body
\* accumulated so far followed by the bytes still in the buffer; the parser
\* ends Idle.
C6_ForcedClose == [][C6_Step]_vars

C6_Witness ==
    /\ pc = "done" /\ result = NoErr
    /\ input = <<"<", "a", " ", "k", "=", "\"", "v", "\"", ">", "f", "<", "/", "t">>
    /\ p.active.nil
    /\ p.sink = << [Name |-> <<"t">>, Attrs |-> MapSet(EmptyAttrs, <<"k">>, <<"v">>), Content |-> <<"f", "<", "/", "t">>] >>

\* text without the bytes before its first '<' (nothing when it has none)
DropLeadingText(text) ==
    IF HasLt(text) THEN From(text, IndexByte(text, "<")) ELSE <<>>

C7_Step ==
    (IsReadStep /\ p.active.nil /\ IsCloseTag(DropLeadingText(Pending)))
    => /\ p'.sink = p.sink
       /\ p'.active.nil
       /\ p.recoveryMode = ContinueMode
             => /\ pc' = "reading" /\ result' = NoErr
                /\ p'.handled = p.handled
                /\ p'.buf = <<>>
       /\ (p.recoveryMode = StrictMode /\ p.errorHandler = "nil")
             => /\ pc' = "done"
                /\ result'.kind = "UnmatchedTag"
                /\ result'.tagName = CloseTagName(DropLeadingText(Pending))

C8_DefaultIgnoresUnmatchedClose ==
    (/\ pc = "done"
     /\ input = <<"<", "/", "b", ">", "<", "t", ">", "x", "<", "/", "t", ">", "<", "/", "b", ">">>
     /\ p.recoveryMode = StrictMode /\ p.errorHandler = "nil"
     /\ p.validators = NewValidatorRegistry)
    => /\ result = NoErr
       /\ p.sink = << [Name |-> <<"t">>, Attrs |-> EmptyAttrs, Content |-> <<"x">>] >>

\* self-closing tags: their bytes, the canonical name they resolve to (<<>>
\* when the name is not registered) and the attributes they carry
SelfCloseCases ==
    { [bytes |-> <<"<", "t", "/", ">">>, canon |-> <<"t">>, attrs |-> EmptyAttrs],
      [bytes |-> <<"<", "S", " ", "k", "=", "'", "v", "'", " ", "/", ">">>, canon |-> <<"s">>, attrs |-> MapSet(EmptyAttrs, <<"k">>, <<"v">>)],
      [bytes |-> <<"<", "a", " ", "k", "=", "{", "\"", "}", "\"", "}", "/", ">">>, canon |-> <<"t">>, attrs |-> MapSet(EmptyAttrs, <<"k">>, <<"{", "\"", "}", "\"", "}">>)],
      [bytes |-> <<"<", "b", "/", ">">>, canon |-> <<>>, attrs |-> EmptyAttrs] }

C9_Step ==
    \A c \in SelfCloseCases :
        (IsReadStep /\ p.active.nil /\ DropLeadingText(Pending) = c.bytes)
        => /\ pc' = "reading" /\ result' = NoErr /\ p'.handled = p.handled
           /\ p'.active.nil
           /\ p'.buf = <<>>
           /\ p'.sink = IF c.canon # <<>>
                        THEN Append(p.sink, [Name |-> c.canon, Attrs |-> c.attrs,
                                             Content |-> <<>>])
                        ELSE p.sink

\* C9: in Idle a self-closing tag whose name resolves emits at once exactly
\* one event with the canonical name, the tag's attributes and empty content,
\* and the parser stays Idle; one whose name does not resolve emits nothing
\* and raises no error.
C9_SelfClosing == [][C9_Step]_vars

C9_Witness ==
    /\ pc = "reading" /\ fed = Len(input)
    /\ input = <<"x", "\n", "<", "S", " ", "k", "=", "'", "v", "'", " ", "/", ">">>
    /\ p.active.nil
    /\ p.sink = << [Name |-> <<"s">>, Attrs |-> MapSet(EmptyAttrs, <<"k">>, <<"v">>), Content |-> <<>>] >>

C10_Step ==
    (IsReadStep /\ p.active.nil)
    => LET r == onChunk([p EXCEPT !.buf = <<>>], DropLeadingText(Pending))
       IN  /\ p'.sink = r.p.sink
           /\ p'.active = r.p.active
           /\ p'.buf = r.p.buf
           /\ result'.kind = r.err.kind
           /\ result'.tagName = r.err.tagName
           /\ result'.attrName = r.err.attrName
           /\ ~HasLt(Pending)
                 => /\ p'.sink = p.sink /\ p'.active.nil /\ p'.buf = <<>>
                    /\ result' = NoErr /\ pc' = "reading"

\* C10: text outside any recognized section is not observable. Fed while
\* Idle, bytes that precede the next '<' are dropped: no event is emitted for
\* them, they reach no event's content, and the step ends as it would have
\* without them.
C10_TextOutsideIgnored == [][C10_Step]_vars

C10_Witness ==
    /\ pc = "done" /\ result = NoErr
    /\ input = <<"x", "<", "t", ">", "f", "<", "/", "t", ">", "y", "<", "s", ">", "x", "<", "/", "s", ">", "z">>
    /\ p.sink = << [Name |-> <<"t">>, Attrs |-> EmptyAttrs, Content |-> <<"f">>],
                   [Name |-> <<"s">>, Attrs |-> EmptyAttrs, Content |-> <<"x">>] >>

\* streams of complete sections and the events they complete, in stream order
\* (every body passes the validators of ValidatorConfigs)
OrderedStreams ==
    { [bytes |-> <<"<", "t", " ", "k", "=", "\"", "v", "\"", ">", "f", "<", "/", "t", ">", "<", "s", ">", "x", "<", "/", "s", ">">>,
       events |-> << SectionEvent(<<"t">>, MapSet(EmptyAttrs, <<"k">>, <<"v">>), <<"f">>),
                     SectionEvent(<<"s">>, EmptyAttrs, <<"x">>) >>],
      [bytes |-> <<"x", "<", "t", ">", "f", "<", "/", "t", ">", "y", "<", "s", ">", "x", "<", "/", "s", ">", "z">>,
       events |-> << SectionEvent(<<"t">>, EmptyAttrs, <<"f">>),
                     SectionEvent(<<"s">>, EmptyAttrs, <<"x">>) >>],
      [bytes |-> <<"<", "s", ">", "x", "<", "/", "s", ">", "<", "t", "/", ">", "<", "W", ">", "f">>,
       events |-> << SectionEvent(<<"s">>, EmptyAttrs, <<"x">>),
                     SectionEvent(<<"t">>, EmptyAttrs, <<>>),
                     SectionEvent(<<"t">>, EmptyAttrs, <<"f">>) >>] }

\* C11: events reach the sink in the order their sections complete in the
\* stream (closing tag, self-closing tag, a forced close last), one event per
\* completed recognized section: when ProcessStream returns, the sink holds
\* exactly the events of the stream's sections, in stream order.
C11_CompletionOrder ==
    pc = "done" =>
        \A s \in OrderedStreams : input = s.bytes => p.sink = s.events

\* the unsplit stream does deliver its events in completion order
C11_UnsplitOrder ==
    (pc = "reading" /\ fed = 0) =>
        \A s \in OrderedStreams :
            input = s.bytes => ProcessWhole(p, input).p.sink = s.events

\* the sink only grows, at its end
C11_AppendOnly ==
    [][Len(p'.sink) >= Len(p.sink) /\ SubSeq(p'.sink, 1, Len(p.sink)) = p.sink]_vars

C12_Step ==
    \A o \in Opens, b \in Bodies, c \in FullCloses :
        (/\ IsReadStep /\ fed' = Len(input)
         /\ input = o \o b \o c
         /\ Resolves(BeginsWithCloseName(c), Canonical(TestRegistry, OpenName(o)))
         /\ ~HasOwnClose(b, Canonical(TestRegistry, OpenName(o)))
         /\ Canonical(TestRegistry, OpenName(o)) \notin DOMAIN p.validators
         /\ result' = NoErr /\ p'.handled = <<>>)
        => /\ p'.active.nil
           /\ Len(p'.sink) = 1
           /\ p'.sink[1].Name = Canonical(TestRegistry, OpenName(o))

\* C12: emit on close. The Read step that feeds the final '>' of the closing
\* tag of the active section, no error having been raised, emits the
\* section's event in that step; the event does not wait for a later chunk or
\* for end of stream.
C12_EmitOnClose == [][C12_Step]_vars

C12_BufferedStep ==
    (/\ IsReadStep /\ ~p.active.nil
     /\ HasOwnClose(Pending, p.active.canon)
     /\ p.active.canon \notin DOMAIN p.validators
     /\ result' = NoErr /\ p'.handled = p.handled)
    => /\ Len(p'.sink) > Len(p.sink)
       /\ p'.sink[Len(p.sink) + 1].Name = p.active.canon

\* once a whole closing tag of the active section lies in the buffer and no
\* error is raised, drain emits the event before it returns
C12_BufferedClose == [][C12_BufferedStep]_vars

\* the tags of IdleTags that are an error in Strict mode, and the error's kind
ErrorTags ==
    { [bytes |-> <<"<", "/", "b", ">">>, kind |-> "UnmatchedTag"],
      [bytes |-> <<"<", "/", "t", ">">>, kind |-> "UnmatchedTag"],
      [bytes |-> <<"<", "/", "t", " ", ">">>, kind |-> "UnmatchedTag"],
      [bytes |-> <<"<", "/", ">">>, kind |-> "UnmatchedTag"],
      [bytes |-> <<"<", "t", " ", "k", ">">>, kind |-> "AttributeParsing"],
      [bytes |-> <<"<", "S", " ", "K", " ", "/", ">">>, kind |-> "AttributeParsing"],
      [bytes |-> <<"<", "t", " ", "k", "=", "v", ">">>, kind |-> "AttributeParsing"],
      [bytes |-> <<"<", ">">>, kind |-> "MalformedTag"] }

IsPrefix(s, t) == Len(s) <= Len(t) /\ SubSeq(t, 1, Len(s)) = s

StrictNoHandler == p.recoveryMode = StrictMode /\ p.errorHandler = "nil"

C13_Step ==
    StrictNoHandler =>
        /\ pc = "done" => UNCHANGED vars
        /\ (IsReadStep /\ result' # NoErr)
              => /\ pc' = "done"
                 /\ IsPrefix(p.sink, p'.sink)
                 /\ p'.handled = <<>>

C13_Final ==
    (StrictNoHandler /\ pc = "done") =>
        /\ \A a \in Pres, g \in ErrorTags, z \in Posts :
              input = a \o g.bytes \o z
              => result.kind = g.kind /\ p.sink = <<>> /\ p.active.nil
        /\ (input = <<"<", "t", ">", "f", "<", "/", "t", ">", "<", "/", "b", ">", "<", "s", ">", "x", "<", "/", "s", ">">>
            /\ result # NoErr)
              => /\ result.kind = "UnmatchedTag"
                 /\ p.sink = << SectionEvent(<<"t">>, EmptyAttrs, <<"f">>) >>
                 /\ p.active.nil
        /\ (input = <<"<", "t", ">", "x", "\n", "<", "/", "t", ">">> /\ p.validators = NeedsF)
              => /\ result.kind = "Validation"
                 /\ p.sink = <<>>
                 /\ ~p.active.nil /\ p.active.canon = <<"t">>

\* C13: in Strict mode with no handler the first error ends ProcessStream with
\* that error: no further chunk is read, no event is emitted after the error
\* (a section active at the error stays open, it is not force-closed, and a
\* section that follows the error in the stream is not emitted), and the
\* events emitted before the error stay in the sink.
C13_StrictStopsAtFirstError == [][C13_Step]_vars /\ []C13_Final

C13_Witness ==
    /\ StrictNoHandler /\ pc = "done"
    /\ input = <<"<", "t", ">", "f", "<", "/", "t", ">", "<", "/", "b", ">", "<", "s", ">", "x", "<", "/", "s", ">">>
    /\ result.kind = "UnmatchedTag" /\ result.tagName = <<"b">>
    /\ fed < Len(input)
    /\ p.sink = << SectionEvent(<<"t">>, EmptyAttrs, <<"f">>) >>

ContinueNoHandler == p.recoveryMode = ContinueMode /\ p.errorHandler = "nil"

C14_Step ==
    (ContinueNoHandler /\ IsReadStep /\ p.active.nil)
    => \A g \in ErrorTags :
          IsPrefix(g.bytes, DropLeadingText(Pending))
          => \E r \in { onChunk([p EXCEPT !.buf = <<>>],
                                From(DropLeadingText(Pending), Len(g.bytes))) } :
                /\ p'.sink = r.p.sink
                /\ p'.active = r.p.active
                /\ p'.buf = r.p.buf
                /\ pc' = "reading"

TokenizerErrorTags == { g \in ErrorTags : g.kind \in {"MalformedTag", "AttributeParsing"} }

\* what a handler's decision gives when ProcessStream has returned, for the
\* recovery modes in modes
HandlerDecides(modes) ==
    /\ p.errorHandler = "true" => result = NoErr
    /\ (p.errorHandler = "false" /\ pc = "done")
          => /\ \A a \in Pres, g \in TokenizerErrorTags, z \in Posts :
                   (input = a \o g.bytes \o z /\ p.recoveryMode \in modes)
                   => /\ result.kind = g.kind
                      /\ Len(p.handled) >= 1 /\ p.handled[1].kind = g.kind
                      /\ p.sink = <<>>
             /\ (input = <<"<", "t", ">", "x", "\n", "<", "/", "t", ">">> /\ p.validators = NeedsF)
                   => result.kind = "Validation" /\ p.sink = <<>>

\* C15: a configured handler decides the outcome of each error in either
\* recovery mode: when it returns true ProcessStream does not return the
\* error; when it returns false ProcessStream stops and returns it, for
\* MalformedTag and AttributeParsing errors as for Validation errors.
C15_HandlerDecides == HandlerDecides({StrictMode, ContinueMode})

\* the handler's decision does decide in Strict mode
C15_HandlerDecidesInStrict == HandlerDecides({StrictMode})

Handled(kind) == \E i \in DOMAIN p.handled : p.handled[i].kind = kind

\* when ProcessStream has returned, the handler has been given the error of
\* each erroneous input, for the recovery modes in modes
HandlerGetsErrors(modes) ==
    (p.errorHandler # "nil" /\ pc = "done" /\ p.recoveryMode \in modes)
    => /\ \A a \in Pres, g \in ErrorTags, z \in Posts :
             (/\ input = a \o g.bytes \o z
              /\ g.kind = "UnmatchedTag" => p.recoveryMode = StrictMode)
             => Handled(g.kind)
       /\ (input = <<"<", "t", ">", "x", "\n", "<", "/", "t", ">">> /\ p.validators = NeedsF)
             => Handled("Validation")

\* C16: a configured handler is given every error the parser detects (a
\* malformed tag, an attribute syntax error, a validation failure, an
\* unmatched close in Strict mode), in Strict mode and in Continue mode alike.
C16_HandlerGetsEveryError == HandlerGetsErrors({StrictMode, ContinueMode})

\* in Strict mode the handler is given every error
C16_HandlerGetsErrorsInStrict == HandlerGetsErrors({StrictMode})

\* C17: in Strict mode, when the handler returns true for a tokenizer error
\* (MalformedTag or AttributeParsing), the parser skips the failing span and
\* goes on: the well-formed section that follows it in the stream has been
\* emitted when ProcessStream returns.
C17_HandlerContinueResumes ==
    (p.recoveryMode = StrictMode /\ p.errorHandler = "true" /\ pc = "done")
    => \A a \in Pres, g \in TokenizerErrorTags :
          input = a \o g.bytes \o <<"<", "t", ">", "f", "<", "/", "t", ">">>
          => \E i \in DOMAIN p.sink : p.sink[i].Name = <<"t">>

\* text up to its first '<' (all of it when it has none)
LeadingText(text) ==
    IF HasLt(text) THEN Slice(text, 0, IndexByte(text, "<")) ELSE text

\* s past the closing tag it begins with
AfterClose(s) ==
    LET a == skipSpaces(s, 2)
        c == skipSpaces(s, scanName(s, a))
    IN  From(s, c + 1)

\* content passes the validators that vr holds for canon (ValidatorConfigs
\* registers one at most: t must contain "f")
PassesValidators(vr, canon, content) ==
    (vr = NeedsF /\ canon = <<"t">>) => \E i \in DOMAIN content : content[i] = "f"

\* the first '<' of the pending bytes begins a closing tag of the active section
ClosesNow ==
    /\ IsReadStep /\ ~p.active.nil
    /\ BeginsWithClose(DropLeadingText(Pending))
    /\ Resolves(BeginsWithCloseName(DropLeadingText(Pending)), p.active.canon)

ClosedEvent ==
    SectionEvent(p.active.canon, p.active.attrs, p.active.body \o LeadingText(Pending))

\* the step's outcome equals that of an Idle parser given the bytes after the
\* closing tag
ResumesIdle ==
    \E r \in { onChunk([p EXCEPT !.buf = <<>>, !.active = NoElem],
                       AfterClose(DropLeadingText(Pending))) } :
        /\ p'.sink = r.p.sink
        /\ p'.active = r.p.active
        /\ p'.buf = r.p.buf
        /\ result' = r.err

C18_Step ==
    ClosesNow =>
        IF PassesValidators(p.validators, p.active.canon, ClosedEvent.Content)
        THEN /\ Len(p'.sink) > Len(p.sink)
             /\ p'.sink[Len(p.sink) + 1] = ClosedEvent
        ELSE /\ \A i \in DOMAIN p'.sink : i > Len(p.sink) => p'.sink[i] # ClosedEvent
             /\ StrictNoHandler
                   => /\ pc' = "done"
                      /\ result'.kind = "Validation"
                      /\ result'.tagName = p.active.canon
                      /\ p'.sink = p.sink
             /\ (ContinueNoHandler \/ p.errorHandler = "true") => ResumesIdle
             /\ p.errorHandler = "true"
                   => /\ Len(p'.handled) > Len(p.handled)
                      /\ p'.handled[Len(p.handled) + 1].kind = "Validation"
                      /\ p'.handled[Len(p.handled) + 1].tagName = p.active.canon

C19_Step ==
    (/\ IsEOFStep /\ ~p.active.nil
     /\ ~PassesValidators(p.validators, p.active.canon, p.active.body \o p.buf))
    => p'.sink = p.sink

\* C19: a forced close at end of stream treats a validation failure as a
\* normal close does: the section whose body fails validation is abandoned
\* and no event is emitted for it, in Continue mode and when the handler
\* returns true as in Strict mode.
C19_ForcedCloseValidates == [][C19_Step]_vars

\* open and self-closing tags with an attribute key that no '=' follows: the
\* tag's name and the key, as spelled
MissingEqTags ==
    { [bytes |-> <<"<", "t", " ", "k", ">">>, tag |-> <<"t">>, key |-> <<"k">>],
      [bytes |-> <<"<", "S", " ", "K", " ", "/", ">">>, tag |-> <<"S">>, key |-> <<"K">>] }

\* C20: in Strict mode (no handler, or a handler that returns false) an open
\* or self-closing tag with an attribute key not followed by '=' makes
\* ProcessStream fail with an AttributeParsingError whose TagName is the tag's
\* name and whose AttributeName is the key; no event is emitted for the tag.
C20_MissingEquals ==
    (p.recoveryMode = StrictMode /\ p.errorHandler # "true" /\ pc = "done")
    => \A a \in Pres, g \in MissingEqTags, z \in Posts :
          input = a \o g.bytes \o z
          => /\ result.kind = "AttributeParsing"
             /\ result.tagName = g.tag
             /\ result.attrName = g.key
             /\ p.sink = <<>>

C20_Witness ==
    /\ StrictNoHandler /\ pc = "done"
    /\ input = <<"x", "\n", "<", "S", " ", "K", " ", "/", ">", "<", "t", ">", "f", "<", "/", "t", ">">>
    /\ result.kind = "AttributeParsing"
    /\ result.tagName = <<"S">> /\ result.attrName = <<"K">>
    /\ p.sink = <<>>

C21_Step ==
    /\ \A c \in AttrCases :
          (IsReadStep /\ p.active.nil /\ Pending = c.bytes)
          => /\ result' = NoErr /\ p'.buf = <<>>
             /\ p'.sink = Append(p.sink, SectionEvent(<<"t">>, c.attrs, <<>>))
    /\ (/\ IsReadStep /\ p.active.nil
        /\ p.recoveryMode = StrictMode /\ p.errorHandler # "true"
        /\ IsPrefix(<<"<", "t", " ", "k", "=", "v", ">">>, DropLeadingText(Pending)))
          => /\ result'.kind = "AttributeParsing"
             /\ result'.tagName = <<"t">> /\ result'.attrName = <<"k">>
             /\ p'.sink = p.sink

\* C21: attribute parsing. Keys are stored lowercased; a quoted value is
\* stored without its quotes, a backslash keeps the next byte from ending it
\* and stays in the value, the other kind of quote is an ordinary byte; a
\* brace value is stored with its outer braces, ends at the balancing '}' and
\* quoted spans inside it are skipped; single- and double-quoted values give
\* the same mapping mixed or alone; any other first byte of a value raises an
\* AttributeParsingError.
C21_AttributeParsing == [][C21_Step]_vars

C21_Witness ==
    /\ pc = "reading" /\ fed = Len(input)
    /\ input = <<"<", "t", " ", "K", "=", "\"", "a", "\\", "\"", "b", "\"", "/", ">">>
    /\ p.sink = << SectionEvent(<<"t">>, MapSet(EmptyAttrs, <<"k">>, <<"a", "\\", "\"", "b">>), <<>>) >>

\* the Position after bytes: (1 + newlines, 1 + bytes since the last newline)
PositionAfter(bytes) ==
    LET nl == { i \in DOMAIN bytes : bytes[i] = "\n" }
        lastNl == IF nl = {} THEN 0 ELSE CHOOSE i \in nl : \A j \in nl : j <= i
    IN  [Line |-> 1 + Cardinality(nl), Column |-> 1 + (Len(bytes) - lastNl)]

\* the bytes fed so far that are no longer in the buffer
Removed == Slice(input, 0, fed - Len(p.buf))

\* C22: position accounting. Between chunks the parser's Position is
\* (1 + newlines, 1 + bytes since the last newline) counted over every byte
\* removed from the buffer so far, text discarded outside sections included.
C22_PositionAccounting ==
    pc = "reading" => p.pos = PositionAfter(Removed)

\* the Position does count every byte passed to consume
C22_PositionOfConsumed ==
    p.pos = PositionAfter(p.lastContent)

\* the tags the tokenizer rejects and the 0-based index, within the tag, of
\* the byte at which the violation is detected
ErrorOffsets ==
    { [bytes |-> <<"<", ">">>, at |-> 1],
      [bytes |-> <<"<", "t", " ", "k", ">">>, at |-> 4],
      [bytes |-> <<"<", "S", " ", "K", " ", "/", ">">>, at |-> 5],
      [bytes |-> <<"<", "t", " ", "k", "=", "v", ">">>, at |-> 5] }

\* C23: a MalformedTag or AttributeParsing error carries the line and column
\* of the byte at which the violation was detected, not those of the tag's
\* opening '<'.
C23_ErrorAtOffendingByte ==
    (p.recoveryMode = StrictMode /\ p.errorHandler # "true" /\ pc = "done")
    => \A g \in ErrorOffsets, z \in Posts :
          input = g.bytes \o z
          => /\ result.kind \in {"MalformedTag", "AttributeParsing"}
             /\ result.pos = PositionAfter(Slice(input, 0, g.at))

\* the error carries the Position of the tag's opening '<'
C23_ErrorAtTagStart ==
    (p.recoveryMode = StrictMode /\ p.errorHandler # "true" /\ pc = "done")
    => \A g \in ErrorOffsets, z \in Posts :
          input = g.bytes \o z
          => /\ result.kind \in {"MalformedTag", "AttributeParsing"}
             /\ result.pos = StartPos

\* the last n bytes of s (all of s when it has fewer)
LastBytes(s, n) == IF Len(s) > n THEN SubSeq(s, Len(s) - n + 1, Len(s)) ELSE s

\* C24: the context window is bounded and sliding. Its length never exceeds
\* maxContextLen (1000), and between chunks it holds the last
\* min(maxContextLen, n) of the n bytes consumed so far, the oldest dropped
\* first.
C24_ContextWindow ==
    /\ Len(p.lastContent) <= maxContextLen
    /\ pc = "reading" => p.lastContent = LastBytes(Removed, maxContextLen)

C24_Witness ==
    /\ pc = "reading"
    /\ Len(Removed) > maxContextLen
    /\ Len(p.lastContent) = maxContextLen
    /\ p.lastContent[1] = input[Len(Removed) - maxContextLen + 1]
    /\ p.lastContent[maxContextLen] = input[Len(Removed)]

\* a name in lower case and the same name in upper case
CasePairs ==
    { << <<"t">>, <<"T">> >>, << <<"a">>, <<"A">> >>, << <<"w">>, <<"W">> >>,
      << <<"s">>, <<"S">> >>, << <<"x">>, <<"X">> >>, << <<"b">>, <<"B">> >> }

\* the non-empty aliases of a plugin
AliasesOf(plugin) ==
    { plugin.Aliases[i] : i \in { j \in DOMAIN plugin.Aliases : plugin.Aliases[j] # <<>> } }

\* C25: registering a plugin twice leaves the registry as after the first
\* call; when two registrations claim the same alias the later one wins;
\* Canonical gives the same answer for every letter-casing of a name, and
\* "absent" for a name never registered.
C25_Registry ==
    /\ \A pl \in Plugins :
          Register(Register(p.reg, pl), pl) = Register(p.reg, pl)
    /\ \A pl1 \in Plugins, pl2 \in Plugins :
          pl2.Name # <<>> =>
             \A a \in AliasesOf(pl2) :
                \E c \in CasePairs :
                   /\ pl2.Name \in {c[1], c[2]}
                   /\ CanonicalOk(Register(Register(p.reg, pl1), pl2), a)
                   /\ Canonical(Register(Register(p.reg, pl1), pl2), a) = c[1]
    /\ \A c \in CasePairs :
          /\ CanonicalOk(p.reg, c[1]) = CanonicalOk(p.reg, c[2])
          /\ Canonical(p.reg, c[1]) = Canonical(p.reg, c[2])
    /\ ~CanonicalOk(p.reg, <<"b">>) /\ ~CanonicalOk(p.reg, <<"x">>)
    /\ p.reg = NewRegistry => \A c \in CasePairs : ~CanonicalOk(p.reg, c[2])

C25_Witness ==
    /\ pc = "done"
    /\ input = <<"<", "A", ">", "f", "<", "/", "a", ">">>
    /\ CanonicalOk(p.reg, <<"t">>) /\ Canonical(p.reg, <<"A">>) = <<"s">>
    /\ p.sink = << SectionEvent(<<"s">>, EmptyAttrs, <<"f">>) >>

\* ---------------------------------------------------------------- C26
ValidatorContents == { <<>>, <<"f">>, <<"x">>, <<"f", "x">>, <<"x", "f">>, <<"y">> }

\* the positions, in registration order, of the validators content fails
Failing(vs, content) ==
    { i \in DOMAIN vs : \A k \in DOMAIN content : content[k] # vs[i].needle }

MessageOf(v) ==
    IF v = HasX THEN "no x" ELSE "content does not match expected pattern"

\* err is what the validators vs, taken in registration order, give for
\* content: success when none fails, else the failure of the first that fails
FirstFailure(vs, sectionName, content, err) ==
    IF Failing(vs, content) = {} THEN err = NoErr
    ELSE \E i \in Failing(vs, content) :
            /\ \A j \in Failing(vs, content) : i <= j
            /\ err.kind = "Validation"
            /\ err.tagName = sectionName
            /\ err.message = MessageOf(vs[i])

C26_Pure ==
    \A n \in ValidatorNames \cup { <<"T">>, <<"s">>, <<"a">> }, c \in ValidatorContents :
        IF n \in DOMAIN p.validators
        THEN FirstFailure(p.validators[n], n, c,
                          ValidateSection(p.validators, n, c, StartPos))
        ELSE ValidateSection(p.validators, n, c, StartPos) = NoErr

C26_Step ==
    (ClosesNow /\ p.recoveryMode = StrictMode /\ p.active.canon \in DOMAIN p.validators)
        => FirstFailure(p.validators[p.active.canon], p.active.canon,
                        ClosedEvent.Content, result')

\* C26: ValidateSection runs the validators registered for a section name in
\* registration order and returns the failure of the first one that fails
\* (so no later validator decides the result); it returns success when every
\* validator passes and when no validator is registered for the name. The
\* error ProcessStream returns in Strict mode when a section closes is that
\* first failure.
C26_ValidateSection == [][C26_Step]_vars /\ []C26_Pure

C26_Witness ==
    /\ pc = "done" /\ p.recoveryMode = StrictMode
    /\ input = <<"<", "t", ">", "f", "<", "/", "t", ">">>
    /\ p.validators = RegisterValidator(RegisterValidator(NewValidatorRegistry, <<"t">>, HasF),
                                        <<"t">>, HasX)
    /\ result.kind = "Validation" /\ result.message = "no x"
    /\ p.sink = <<>>

\* ---------------------------------------------------------------- C29
\* the names differing from canon at most in letter case under which a
\* validator is registered
CasingsOf(canon) ==
    { n \in DOMAIN p.validators :
         n = canon \/ \E c \in CasePairs : c[1] = canon /\ c[2] = n }

C29_Step ==
    \A n \in CasingsOf(p.active.canon) :
        (ClosesNow /\ Failing(p.validators[n], ClosedEvent.Content) # {})
            => /\ \A i \in DOMAIN p'.sink : i > Len(p.sink) => p'.sink[i] # ClosedEvent
               /\ p.recoveryMode = StrictMode => result'.kind = "Validation"

\* C29: a validator registered under any letter-casing of a section's
\* canonical name is applied to every closed section of that canonical name:
\* a body that fails such a validator is not emitted, and in Strict mode
\* ProcessStream returns the ValidationError.
C29_ValidatorsCaseInsensitive == [][C29_Step]_vars

\* the same for validators registered under the canonical name itself
C29_CanonStep ==
    (ClosesNow /\ p.active.canon \in DOMAIN p.validators
               /\ Failing(p.validators[p.active.canon], ClosedEvent.Content) # {})
        => /\ \A i \in DOMAIN p'.sink : i > Len(p.sink) => p'.sink[i] # ClosedEvent
           /\ p.recoveryMode = StrictMode => result'.kind = "Validation"

C29_ValidatorsByCanonicalName == [][C29_CanonStep]_vars

\* ---------------------------------------------------------------- C27
\* tags the tokenizer accepts whole
WellFormedTags ==
    Opens \cup { c.bytes : c \in AttrCases }
    \cup { <<"<", "/", "b", ">">>,
           <<"<", "/", "t", " ", ">">>,
           <<"<", "t", "/", ">">>,
           <<"<", "S", " ", "k", "=", "'", "v", "'", " ", "/", ">">>,
           <<"<", "a", " ", "k", "=", "{", "\"", "}", "\"", "}", "/", ">">>,
           <<"<", "b", ">">> }

\* closing tags of a section whose canonical name is canon
OwnCloseTags(canon) ==
    IF canon = <<"t">>
    THEN { <<"<", "/", "t", ">">>, <<"<", "/", "a", " ", ">">>, <<"<", "/", " ", "T", ">">> }
    ELSE { <<"<", "/", "s", ">">>, <<"<", "/", " ", "S", " ", ">">> }

\* the partial tags: the non-empty proper prefixes of the tags of tags
ProperPrefixes(tags) ==
    UNION { { SubSeq(g, 1, n) : n \in 1..(Len(g) - 1) } : g \in tags }

\* the step left the partial tag alone: it is the whole buffer, the text
\* before it is gone through (with body the active element's body after it),
\* nothing is emitted or reported, and drain on the buffer returns at once
WaitsForMore(body) ==
    /\ p'.buf = DropLeadingText(Pending)
    /\ p'.active = [p.active EXCEPT !.body = body]
    /\ p'.pos = advance(p.pos, LeadingText(Pending))
    /\ p'.sink = p.sink /\ p'.handled = p.handled
    /\ result' = NoErr /\ pc' = "reading"
    /\ drainStep(p') = Step(p', FALSE, NoErr)

C27_IdleStep ==
    (IsReadStep /\ p.active.nil
                /\ DropLeadingText(Pending) \in ProperPrefixes(WellFormedTags))
        => /\ WaitsForMore(p.active.body)
           /\ parseTagToken(p'.buf, p'.pos) = Incomplete

C27_ActiveStep ==
    (IsReadStep /\ ~p.active.nil
                /\ DropLeadingText(Pending) \in ProperPrefixes(OwnCloseTags(p.active.canon)))
        => /\ WaitsForMore(p.active.body \o LeadingText(Pending))
           /\ parseOwnClose(p', p'.buf) = OwnClose(0, FALSE, FALSE, NoErr)

\* C27: need-more-bytes consumes nothing. When the bytes to parse end in a
\* partial tag (Idle: a proper prefix of a tag; in a section: a proper prefix
\* of a closing tag of the section), parseTagToken or parseOwnClose reports 0
\* consumed bytes and no error, and drain returns with the partial tag as the
\* whole buffer, the active element, its body and the Position as the text
\* before the tag left them, nothing emitted and no error.
C27_NeedMoreBytes == [][C27_IdleStep /\ C27_ActiveStep]_vars

\* the same, but for a section's partial closing tag that is the lone '<'
C27_ActiveStepPastLt ==
    Len(DropLeadingText(Pending)) # 1 => C27_ActiveStep

C27_NeedMoreBytesPastLt == [][C27_IdleStep /\ C27_ActiveStepPastLt]_vars

\* ---------------------------------------------------------------- C28
\* closing tags with whitespace inside, and the same tags without it
SpacedCloses ==
    { [bytes |-> <<"<", "/", " ", "b", " ", ">">>, name |-> <<"b">>],
      [bytes |-> <<"<", "/", "t", " ", ">">>, name |-> <<"t">>],
      [bytes |-> <<"<", "/", "a", " ", ">">>, name |-> <<"a">>],
      [bytes |-> <<"<", "/", " ", "T", ">">>, name |-> <<"T">>] }

PlainClose(name) == <<"<", "/">> \o name \o <<">">>

\* errors without their Position
WithoutPos(errs) == [i \in DOMAIN errs |-> [errs[i] EXCEPT !.pos = StartPos]]

\* the step's outcome, Positions apart, is that of the same parser given text
\* in place of the pending bytes
SameOutcomeAs(text) ==
    \E r \in { onChunk([p EXCEPT !.buf = <<>>], text) } :
        /\ p'.sink = r.p.sink
        /\ p'.active = r.p.active
        /\ p'.buf = r.p.buf
        /\ WithoutPos(p'.handled) = WithoutPos(r.p.handled)
        /\ WithoutPos(<<result'>>) = WithoutPos(<<r.err>>)
        /\ pc' = IF r.stop THEN "done" ELSE "reading"

\* the pending bytes with the spaced closing tag w, which follows their
\* leading text, replaced by the plain closing tag of the same name
Unspaced(w) ==
    LeadingText(Pending) \o PlainClose(w.name)
        \o From(DropLeadingText(Pending), Len(w.bytes))

C28_IdleStep ==
    \A w \in SpacedCloses :
        (IsReadStep /\ p.active.nil /\ IsPrefix(w.bytes, DropLeadingText(Pending)))
            => SameOutcomeAs(Unspaced(w))

C28_ActiveStep ==
    \A w \in SpacedCloses :
        (IsReadStep /\ ~p.active.nil /\ Resolves(w.name, p.active.canon)
                    /\ IsPrefix(w.bytes, DropLeadingText(Pending)))
            => SameOutcomeAs(Unspaced(w))

\* C28: a closing tag with whitespace between "</" and the name, or between
\* the name and '>', is recognized as the closing tag of that name: it is
\* treated as the same tag without the whitespace, both when it closes the
\* active section and when the parser is Idle.
C28_SpacedClose == [][C28_IdleStep /\ C28_ActiveStep]_vars

\* the same for the closing tags of the active section only
C28_SpacedCloseOfActive == [][C28_ActiveStep]_vars

\* the same in Idle for whitespace before '>' only
C28_IdleTrailingStep ==
    \A w \in { v \in SpacedCloses : v.bytes[3] # " " } :
        (IsReadStep /\ p.active.nil /\ IsPrefix(w.bytes, DropLeadingText(Pending)))
            => SameOutcomeAs(Unspaced(w))

C28_SpacedCloseIdleTrailing == [][C28_IdleTrailingStep]_vars

\* ---------------------------------------------------------------- C30
\* the tokenizer error drain skips in Continue mode at the head of q's buffer
\* has a length of at least 1
SkipsAtLeastOne(q, r) ==
    (q.recoveryMode = ContinueMode /\ r.err # NoErr) => r.consumed >= 1

SkipAtHead(q) ==
    (q.buf # <<>> /\ q.buf[1] = "<")
        => IF q.active.nil
           THEN SkipsAtLeastOne(q, parseTagToken(q.buf, q.pos))
           ELSE SkipsAtLeastOne(q, parseOwnClose(q, q.buf))

\* s is the Step one iteration of drain's loop gives for the parser q: every
\* iteration from there on that goes round the loop again has removed at
\* least one byte from the buffer
RECURSIVE ProgressFrom(_, _)
ProgressFrom(q, s) ==
    /\ SkipAtHead(q)
    /\ s.go => /\ Len(s.p.buf) < Len(q.buf)
               /\ ProgressFrom(s.p, drainStep(s.p))

C30_Step ==
    IsReadStep => ProgressFrom(feed(p, Slice(input, fed, fed')),
                               drainStep(feed(p, Slice(input, fed, fed'))))

\* C30: drain terminates and makes forward progress. Whatever the buffer, the
\* parser state and the recovery mode when a chunk has been fed, each
\* iteration of drain's loop either returns or leaves the buffer at least one
\* byte shorter, so drain returns after at most len(buffer) iterations; the
\* length skipped in Continue-mode error recovery is at least 1.
C30_DrainProgress == [][C30_Step]_vars

C30_Witness ==
    /\ ContinueNoHandler /\ pc = "done" /\ result = NoErr
    /\ input = <<"x", "\n", "<", ">", "<", "t", ">", "f", "<", "/", "t", ">">>
    /\ p.sink = << SectionEvent(<<"t">>, EmptyAttrs, <<"f">>) >>

\* ---------------------------------------------------------------- C31
\* s begins with "</" and a byte that is neither a name character nor
\* whitespace
MissingCloseName(s) ==
    /\ Len(s) >= 3 /\ s[1] = "<" /\ s[2] = "/"
    /\ ~isNameChar(s[3]) /\ ~isSpace(s[3])

C31_IdleStep ==
    (IsReadStep /\ p.active.nil /\ MissingCloseName(DropLeadingText(Pending)))
        => /\ parseTagToken(DropLeadingText(Pending), p.pos).err.kind = "MalformedTag"
           /\ ~parseTagToken(DropLeadingText(Pending), p.pos).ok
           /\ StrictNoHandler => (pc' = "done" /\ result'.kind = "MalformedTag")

C31_ActiveStep ==
    (IsReadStep /\ ~p.active.nil /\ StrictNoHandler
                /\ MissingCloseName(DropLeadingText(Pending)))
        => (pc' = "done" /\ result'.kind = "MalformedTag")

\* C31: a "</" that no name character follows (as in "</>") is reported as a
\* MalformedTag error: the tokenizer never returns it as a close token with
\* an empty name, and in Strict mode without a handler ProcessStream fails
\* with the MalformedTag error, in Idle and inside a section.
C31_MissingCloseName == [][C31_IdleStep /\ C31_ActiveStep]_vars

\* the same inside a section only
C31_MissingCloseNameInSection == [][C31_ActiveStep]_vars

\* ---------------------------------------------------------------- C32
\* open tags whose name is not registered
UnknownOpens ==
    { <<"<", "b", ">">>,
      <<"<", "B", " ", "k", "=", "\"", "v", "\"", ">">> }

C32_Step ==
    \A u \in UnknownOpens :
        (IsReadStep /\ p.active.nil /\ IsPrefix(u, DropLeadingText(Pending)))
            => /\ SameOutcomeAs(From(DropLeadingText(Pending), Len(u)))
               /\ DropLeadingText(Pending) = u
                     => /\ p'.active.nil /\ p'.sink = p.sink /\ p'.buf = <<>>
                        /\ p'.handled = p.handled
                        /\ result' = NoErr /\ pc' = "reading"

BadStarts ==
    { [bytes |-> <<"<", ">">>, at |-> 1],
      [bytes |-> <<"<", "<">>, at |-> 1],
      [bytes |-> <<"<", "t", " ", "k", ">">>, at |-> 4],
      [bytes |-> <<"<", "t", " ", "k", "<">>, at |-> 4],
      [bytes |-> <<"<", "S", " ", "K", " ", "/">>, at |-> 5],
      [bytes |-> <<"<", "t", " ", "k", "=", "v">>, at |-> 5],
      [bytes |-> <<"<", "/", " ", "b">>, at |-> 3] }

\* the step ends as drain does for the parser that has consumed the first n
\* of the pending bytes
ResumesAt(n) ==
    \E r \in { afterDrain(drain(consume([p EXCEPT !.buf = Pending], n))) } :
        /\ p' = r.p
        /\ result' = r.err
        /\ pc' = IF r.stop THEN "done" ELSE "reading"

C33_Step ==
    \A g \in BadStarts :
        (IsReadStep /\ p.active.nil /\ p.recoveryMode = ContinueMode
                    /\ IsPrefix(g.bytes, DropLeadingText(Pending)))
            => /\ ResumesAt(Len(LeadingText(Pending)) + g.at)
               /\ p'.handled = p.handled

\* C33: Continue-mode resynchronization. After a tokenizer error in Idle the
\* parser has discarded exactly the bytes from the tag's '<' up to, but not
\* with, the offending byte, and goes on in Idle at the offending byte: a
\* well-formed tag that starts there is tokenized as usual.
C33_Resynchronization == [][C33_Step]_vars

C33_Witness ==
    /\ ContinueNoHandler /\ pc = "done" /\ result = NoErr
    /\ input = <<"<", "t", " ", "k", "<", "s", ">", "x", "<", "/", "s", ">">>
    /\ p.sink = << SectionEvent(<<"s">>, EmptyAttrs, <<"x">>) >>

\* ---------------------------------------------------------------- C34
\* Position a is not after Position b
NotAfter(a, b) == a.Line < b.Line \/ (a.Line = b.Line /\ a.Column <= b.Column)

C34_OneBased == p.pos.Line >= 1 /\ p.pos.Column >= 1

\* C34: the Position is 1-based and never rewound: Line >= 1 and Column >= 1
\* in every state, and no step takes (Line, Column) back in lexicographic
\* order.
C34_PositionMonotonic == [][NotAfter(p.pos, p'.pos)]_vars /\ []C34_OneBased

C34_Witness ==
    /\ p.pos.Line = 2 /\ p.pos.Column = 5
    /\ input = <<"x", "\n", "<", "t", "/", ">", "<", "t", ">", "f", "<", "/", "t", ">">>
    /\ fed = 6 /\ p.buf = <<>>

\* ---------------------------------------------------------------- C35
\* drain, called on the parser with the step's chunk fed, returned no error
DrainReturnedNil == drain(feed(p, Slice(input, fed, fed'))).err = NoErr

\* buf begins with a token that can be decided: a whole tag, the beginning of
\* a rejected tag or, in a section, a closing tag of the section
Decidable(q) ==
    \/ \E g \in WellFormedTags : IsPrefix(g, q.buf)
    \/ \E g \in BadStarts : IsPrefix(g.bytes, q.buf)
    \/ /\ ~q.active.nil /\ BeginsWithClose(q.buf)
       /\ Resolves(BeginsWithCloseName(q.buf), q.active.canon)

C35_Step ==
    (IsReadStep /\ DrainReturnedNil /\ p'.buf # <<>>)
        => /\ p'.buf[1] = "<"
           /\ ~Decidable(p')
           /\ IF p'.active.nil
              THEN parseTagToken(p'.buf, p'.pos) = Incomplete
              ELSE parseOwnClose(p', p'.buf) = OwnClose(0, FALSE, FALSE, NoErr)

\* C35: whenever drain returns without error, the buffer it leaves is empty
\* or begins with '<', the start of a tag the tokenizer judges incomplete:
\* no plain text and no token that can be decided stays in the buffer.
C35_BufferHoldsPartialTag == [][C35_Step]_vars

C35_Witness ==
    /\ pc = "reading" /\ result = NoErr /\ p.active.nil /\ fed = 7
    /\ p.buf = <<"<", "t", " ", "K", "=", "\"", "a">>

\* ---------------------------------------------------------------- C36
C36_Step ==
    (IsReadStep /\ DrainReturnedNil) => drain(p') = [p |-> p', err |-> NoErr]

\* C36: drain is idempotent when it returns without error: a second call of
\* drain with nothing fed in between returns no error and leaves the parser
\* as it is (no event, the same buffer, active element and body, Position and
\* context window).
C36_DrainIdempotent == [][C36_Step]_vars

C36_Witness ==
    /\ pc = "reading" /\ result = NoErr /\ fed = 6
    /\ input = <<"<", "t", ">", "f", "<", "/", "t", ">">>
    /\ ~p.active.nil /\ p.active.body = <<"f">>
    /\ p.buf = <<"<", "/">>

\* ---------------------------------------------------------------- C37
\* a section whose body fails the validator of NeedsF, and nothing else
FailingSection == <<"<", "t", ">", "x", "\n", "<", "/", "t", ">">>

\* the input holds exactly one error: one tag of tags between a text of Pres
\* and a stream of Posts
OneErrorAmong(tags) ==
    \E a \in Pres, g \in tags, z \in Posts : input = a \o g.bytes \o z

\* the input holds exactly one validation failure
OneFailedValidation == input = FailingSection /\ p.validators = NeedsF

\* C37: the custom error handler is invoked at most once per detected error.
\* On an input with exactly one error (one rejected or unmatched tag, or one
\* section that fails validation) the handler has been called at most once in
\* every state, whatever it returns and however many chunks follow, and the
\* section that failed validation is no longer active once the handler has
\* been called.
C37_HandlerOncePerError ==
    (p.errorHandler # "nil" /\ (OneErrorAmong(ErrorTags) \/ OneFailedValidation))
        => /\ Len(p.handled) <= 1
           /\ (p.handled # <<>> /\ p.handled[1].kind = "Validation") => p.active.nil

\* the same for an unmatched closing tag only, whose bytes are consumed
\* before the error is raised
C37_UnmatchedOnce ==
    (p.errorHandler # "nil"
        /\ OneErrorAmong({ g \in ErrorTags : g.kind = "UnmatchedTag" }))
        => Len(p.handled) <= 1

\* the same for a handler that returns false and a rejected tag
C37_RejectedOnceWhenStopped ==
    (p.errorHandler = "false" /\ OneErrorAmong(TokenizerErrorTags))
        => Len(p.handled) <= 1

\* ---------------------------------------------------------------- C38
\* the spellings looked up in the registry
Spellings == UNION { {c[1], c[2]} : c \in CasePairs }

\* C38: after any sequence of Register calls the registry is closed under
\* resolution: the canonical name of every name that resolves is a name that
\* resolves to itself, Canonical(Canonical(n)) = Canonical(n).
C38_ClosedUnderResolution ==
    \A n \in Spellings :
        CanonicalOk(p.reg, n)
            => /\ CanonicalOk(p.reg, Canonical(p.reg, n))
               /\ Canonical(p.reg, Canonical(p.reg, n)) = Canonical(p.reg, n)

\* the canonical name of every name that resolves is itself a name that
\* resolves
C38_CanonicalResolves ==
    \A n \in Spellings :
        CanonicalOk(p.reg, n) => CanonicalOk(p.reg, Canonical(p.reg, n))

\* ---------------------------------------------------------------- C39
IsCallStep == pc = "done" /\ pc' = "reading"

C39_Step ==
    IsCallStep
        => /\ p'.active.nil /\ p'.buf = <<>>
           /\ p'.pos = StartPos /\ p'.lastContent = <<>>
           /\ p'.reg = p.reg /\ p'.validators = p.validators
           /\ p'.recoveryMode = p.recoveryMode /\ p'.errorHandler = p.errorHandler

\* what the later call gives is what a new engine with the same registry,
\* options and validators gives for its stream
C39_Later ==
    (pc = "done" /\ input \in SecondInputs)
        => \E r \in { ProcessWhole(FreshParser, input) } :
              /\ p.sink = r.p.sink
              /\ result = r.err

\* C39: successive ProcessStream calls on one Engine are independent. Each
\* call starts from a fresh parser (Idle, empty buffer, Position 1:1, empty
\* context) that has the engine's registry, options and validators, and the
\* events and the error of the later call are those of a new engine on the
\* same stream, whatever the earlier call left behind (an active section,
\* buffered bytes, an error).
C39_CallsIndependent == [][C39_Step]_vars /\ []C39_Later

C39_Witness ==
    /\ pc = "done" /\ StrictNoHandler /\ p.validators = NeedsF
    /\ input = <<"<", "t", "/", ">", "<", "S", " ", "k", "=", "'", "v", "'", " ", "/", ">">>
    /\ result = NoErr
    /\ p.sink = << SectionEvent(<<"t">>, EmptyAttrs, <<>>),
                   SectionEvent(<<"s">>, MapSet(EmptyAttrs, <<"k">>, <<"v">>), <<>>) >>

====
